---- MODULE Spec2Model ----
(***************************************************************************)
(* A model of the REST transcoding engine of gapic-generator-go             *)
(* (internal/gengapic/genrest.go): leaf-field enumeration, path and query   *)
(* parameter classification, query-string and URL synthesis, and the        *)
(* dispatch of a method to one call-strategy synthesizer.                   *)
(*                                                                          *)
(* Go strings are sequences of byte values, so that strings.Join,           *)
(* sort.Strings and the two regular expressions are computed as the code    *)
(* computes them.  A *FieldDescriptorProto is a pair (owning message,       *)
(* index): two fields are the same pointer iff the pairs are equal.         *)
(***************************************************************************)
EXTENDS Integers, Sequences, FiniteSets, TLC

VARIABLES
  pc,        \* "idle" before a call on a fresh generator, "done" after it
  call,      \* the operation last applied, with its inputs
  result,    \* what that operation returned
  pt,        \* g.pt: the output buffer, a sequence of emitted lines
  imports,   \* g.imports
  lros,      \* g.aux.lros
  invoked,   \* the call-strategy synthesizers entered by the last genRESTMethod
  descInfo,  \* g.descInfo.Type: the message descriptors, by fully-qualified name
  wpc,       \* the statement of Operation.Wait to run next, "none" outside a call
  proto,     \* h.proto: the operation message the handle caches
  ctxDone,   \* ctx of the Wait call is cancelled or past its deadline
  responses, \* what h.c.Get returned to each Poll so far
  events,    \* the polls, completion checks and sleeps of the Wait call so far
  ret,       \* what Wait returned, Pending until it returns
  it,        \* the StringIterator GetManyThings returned, with its PageInfo
  req,       \* the clone of the request that the fetches send
  callerReq, \* the request the caller passed to GetManyThings
  pages,     \* the pages the service holds, in order
  fetches,   \* the calls of InternalFetch so far
  yielded,   \* what the calls of Next returned so far
  client,    \* the fields of the REST client instance
  callers    \* the calls in progress on the client, one per caller

genVars == <<pc, call, result, pt, imports, lros, invoked, descInfo>>

waitVars == <<wpc, proto, ctxDone, responses, events, ret>>

iterVars == <<it, req, callerReq, pages, fetches, yielded>>

callVars == <<client, callers>>

vars == <<pc, call, result, pt, imports, lros, invoked, descInfo,
          wpc, proto, ctxDone, responses, events, ret,
          it, req, callerReq, pages, fetches, yielded,
          client, callers>>

----------------------------------------------------------------------------
(* Strings *)

\* The bytes of a Go string literal.
Bytes(s) ==
  CASE
       s = "" -> <<>>
    [] s = "*" -> <<42>>
    [] s = "mass_kg" -> <<109, 97, 115, 115, 95, 107, 103>>
    [] s = "saltwater_p" -> <<115, 97, 108, 116, 119, 97, 116, 101, 114, 95, 112>>
    [] s = "color_code" -> <<99, 111, 108, 111, 114, 95, 99, 111, 100, 101>>
    [] s = "chromatophore" -> <<99, 104, 114, 111, 109, 97, 116, 111, 112, 104, 111, 114, 101>>
    [] s = "length_m" -> <<108, 101, 110, 103, 116, 104, 95, 109>>
    [] s = "mantle" -> <<109, 97, 110, 116, 108, 101>>
    [] s = "whelk" -> <<119, 104, 101, 108, 107>>
    [] s = "clams" -> <<99, 108, 97, 109, 115>>
    [] s = "pearl" -> <<112, 101, 97, 114, 108>>
    [] s = "oyster" -> <<111, 121, 115, 116, 101, 114>>
    [] s = "luster" -> <<108, 117, 115, 116, 101, 114>>
    [] s = "left" -> <<108, 101, 102, 116>>
    [] s = "right" -> <<114, 105, 103, 104, 116>>
    [] s = "name" -> <<110, 97, 109, 101>>
    [] s = "kingdom" -> <<107, 105, 110, 103, 100, 111, 109>>
    [] s = "phylum" -> <<112, 104, 121, 108, 117, 109>>
    [] s = "guess" -> <<103, 117, 101, 115, 115>>
    [] s = "size" -> <<115, 105, 122, 101>>
    [] s = "other" -> <<111, 116, 104, 101, 114>>
    [] s = "class" -> <<99, 108, 97, 115, 115>>
    [] s = "mantle.chromatophore" -> <<109, 97, 110, 116, 108, 101, 46, 99, 104, 114, 111, 109, 97, 116, 111, 112, 104, 111, 114, 101>>
    [] s = "mantle.mass_kg" -> <<109, 97, 110, 116, 108, 101, 46, 109, 97, 115, 115, 95, 107, 103>>
    [] s = "left.chromatophore" -> <<108, 101, 102, 116, 46, 99, 104, 114, 111, 109, 97, 116, 111, 112, 104, 111, 114, 101>>
    [] s = "/kingdom" -> <<47, 107, 105, 110, 103, 100, 111, 109>>
    [] s = "/kingdom/{kingdom}" -> <<47, 107, 105, 110, 103, 100, 111, 109, 47, 123, 107, 105, 110, 103, 100, 111, 109, 125>>
    [] s = "/kingdom/{kingdom}/phylum/{phylum}" -> <<47, 107, 105, 110, 103, 100, 111, 109, 47, 123, 107, 105, 110, 103, 100, 111, 109, 125, 47, 112, 104, 121, 108, 117, 109, 47, 123, 112, 104, 121, 108, 117, 109, 125>>
    [] s = "/kingdom/{kingdom}/phylum/{phylum}/class/{class}" -> <<47, 107, 105, 110, 103, 100, 111, 109, 47, 123, 107, 105, 110, 103, 100, 111, 109, 125, 47, 112, 104, 121, 108, 117, 109, 47, 123, 112, 104, 121, 108, 117, 109, 125, 47, 99, 108, 97, 115, 115, 47, 123, 99, 108, 97, 115, 115, 125>>
    [] s = "/v1/foo" -> <<47, 118, 49, 47, 102, 111, 111>>
    [] s = "/v1/{mantle.mass_kg}/x/{length_m}" -> <<47, 118, 49, 47, 123, 109, 97, 110, 116, 108, 101, 46, 109, 97, 115, 115, 95, 107, 103, 125, 47, 120, 47, 123, 108, 101, 110, 103, 116, 104, 95, 109, 125>>
    [] s = "/v1/{mantle}" -> <<47, 118, 49, 47, 123, 109, 97, 110, 116, 108, 101, 125>>
    [] s = "/v1/{name=shelves/*}/{}" -> <<47, 118, 49, 47, 123, 110, 97, 109, 101, 61, 115, 104, 101, 108, 118, 101, 115, 47, 42, 125, 47, 123, 125>>
    [] s = "shell" -> <<115, 104, 101, 108, 108>>
    [] s = "chambers" -> <<99, 104, 97, 109, 98, 101, 114, 115>>
    [] s = "ink" -> <<105, 110, 107>>
    [] s = "depth_m" -> <<100, 101, 112, 116, 104, 95, 109>>
    [] s = "alive" -> <<97, 108, 105, 118, 101>>
    [] s = "label" -> <<108, 97, 98, 101, 108>>
    [] s = "arms" -> <<97, 114, 109, 115>>
    [] s = "kind" -> <<107, 105, 110, 100>>
    [] s = "Animalia" -> <<65, 110, 105, 109, 97, 108, 105, 97>>
    [] s = "Mollusca" -> <<77, 111, 108, 108, 117, 115, 99, 97>>
    [] s = "/v1/{kingdom}/phylum/{phylum}" -> <<47, 118, 49, 47, 123, 107, 105, 110, 103, 100, 111, 109, 125, 47, 112, 104, 121, 108, 117, 109, 47, 123, 112, 104, 121, 108, 117, 109, 125>>
    [] s = "/v1/Animalia/phylum/Mollusca" -> <<47, 118, 49, 47, 65, 110, 105, 109, 97, 108, 105, 97, 47, 112, 104, 121, 108, 117, 109, 47, 77, 111, 108, 108, 117, 115, 99, 97>>
    [] s = "%!v(MISSING)" -> <<37, 33, 118, 40, 77, 73, 83, 83, 73, 78, 71, 41>>
    [] s = "%!(EXTRA)" -> <<37, 33, 40, 69, 88, 84, 82, 65, 41>>
    [] s = "/v1/{shell=shelves/*}" -> <<47, 118, 49, 47, 123, 115, 104, 101, 108, 108, 61, 115, 104, 101, 108, 118, 101, 115, 47, 42, 125>>
    [] s = "whelk.mass_kg" -> <<119, 104, 101, 108, 107, 46, 109, 97, 115, 115, 95, 107, 103>>
    [] s = "/v1/{whelk.mass_kg}" -> <<47, 118, 49, 47, 123, 119, 104, 101, 108, 107, 46, 109, 97, 115, 115, 95, 107, 103, 125>>

\* ASCII codes the code's string operations look for.
Dot == 46
LBrace == 123
RBrace == 125
Equals == 61
Star == 42

\* strings.Join(elts, sep)
RECURSIVE Join(_, _)
Join(elts, sep) ==
  IF Len(elts) = 0 THEN <<>>
  ELSE IF Len(elts) = 1 THEN elts[1]
  ELSE elts[1] \o sep \o Join(Tail(elts), sep)

\* strings.Split(s, ".") for a one-byte separator: the pieces between the
\* separators, <<"">> for the empty string.
RECURSIVE SplitFrom(_, _, _, _)
SplitFrom(s, sep, i, cur) ==
  IF i > Len(s) THEN <<cur>>
  ELSE IF s[i] = sep THEN <<cur>> \o SplitFrom(s, sep, i + 1, <<>>)
  ELSE SplitFrom(s, sep, i + 1, Append(cur, s[i]))

Split(s, sep) == SplitFrom(s, sep, 1, <<>>)

\* a < b for Go strings: bytewise lexicographic order.
RECURSIVE StrLessFrom(_, _, _)
StrLessFrom(a, b, i) ==
  IF i > Len(b) THEN FALSE
  ELSE IF i > Len(a) THEN TRUE
  ELSE IF a[i] # b[i] THEN a[i] < b[i]
  ELSE StrLessFrom(a, b, i + 1)

StrLess(a, b) == StrLessFrom(a, b, 1)

\* F applied to the value of v, computed once.
With(v, F(_)) == CHOOSE r \in {F(x) : x \in {v}} : TRUE

\* A Go map: a function on its keys. m[k] = v.
MapPut(m, k, v) ==
  With(<<m, k, v>>, LAMBDA a :
    [x \in (DOMAIN a[1]) \cup {a[2]} |-> IF x = a[2] THEN a[3] ELSE a[1][x]])

EmptyMap == [x \in {} |-> 0]

----------------------------------------------------------------------------
(* The schema: the messages g.descInfo.Type holds, keyed by fully-qualified name *)

fieldTypeMessage == "message"
fieldTypeBytes == "bytes"
fieldTypeString == "string"
fieldTypeBool == "bool"
fieldTypeInt32 == "int32"
fieldTypeEnum == "enum"
fieldLabelRepeated == "repeated"
fieldLabelOptional == "optional"

\* A scalar field descriptor.
Scalar(name, type) ==
  [name |-> Bytes(name), type |-> type, label |-> fieldLabelOptional,
   typeName |-> "", proto3Optional |-> FALSE, required |-> FALSE]

\* A message-typed field descriptor.
Msg(name, typeName, label) ==
  [name |-> Bytes(name), type |-> fieldTypeMessage, label |-> label,
   typeName |-> typeName, proto3Optional |-> FALSE, required |-> FALSE]

Pkg == ".animalia.mollusca."

\* The messages of TestLeafFields, TestPathParams/TestQueryParams and
\* TestGenRestMethod, with a mutually recursive pair (Oyster, Pearl) and a
\* message reaching one type through two fields (Octopus).  Nautilus and
\* Cuttlefish hold fields of every kind generateQueryString tells apart;
\* Scallop has a field named as a field of its nested message is.
\* The repeated field clams of Trawl, whose type name the walk never reads,
\* is given the type Clam.
Type ==
  (Pkg \o "Clam" :> [name |-> "Clam", field |-> <<
      Scalar("mass_kg", fieldTypeInt32), Scalar("saltwater_p", fieldTypeBool)>>])
  @@ (Pkg \o "Chromatophore" :> [name |-> "Chromatophore", field |-> <<
      Scalar("color_code", fieldTypeInt32)>>])
  @@ (Pkg \o "Mantle" :> [name |-> "Mantle", field |-> <<
      Scalar("mass_kg", fieldTypeInt32),
      Msg("chromatophore", Pkg \o "Chromatophore", fieldLabelOptional)>>])
  @@ (Pkg \o "Squid" :> [name |-> "Squid", field |-> <<
      Scalar("length_m", fieldTypeInt32),
      Msg("mantle", Pkg \o "Mantle", fieldLabelOptional)>>])
  @@ (Pkg \o "Whelk" :> [name |-> "Whelk", field |-> <<
      Scalar("mass_kg", fieldTypeInt32),
      Msg("whelk", Pkg \o "Whelk", fieldLabelOptional)>>])
  @@ (Pkg \o "Trawl" :> [name |-> "Trawl", field |-> <<
      Msg("clams", Pkg \o "Clam", fieldLabelRepeated),
      Scalar("mass_kg", fieldTypeInt32)>>])
  @@ (Pkg \o "Oyster" :> [name |-> "Oyster", field |-> <<
      Msg("pearl", Pkg \o "Pearl", fieldLabelOptional),
      Scalar("mass_kg", fieldTypeInt32)>>])
  @@ (Pkg \o "Pearl" :> [name |-> "Pearl", field |-> <<
      Msg("oyster", Pkg \o "Oyster", fieldLabelOptional),
      Scalar("luster", fieldTypeInt32)>>])
  @@ (Pkg \o "Octopus" :> [name |-> "Octopus", field |-> <<
      Msg("left", Pkg \o "Mantle", fieldLabelOptional),
      Msg("right", Pkg \o "Mantle", fieldLabelOptional)>>])
  @@ (Pkg \o "Nautilus" :> [name |-> "Nautilus", field |-> <<
      [Scalar("shell", fieldTypeString) EXCEPT !.required = TRUE],
      [Scalar("chambers", fieldTypeInt32) EXCEPT !.required = TRUE,
                                                 !.label = fieldLabelRepeated],
      [Scalar("ink", fieldTypeBytes) EXCEPT !.required = TRUE],
      [Scalar("depth_m", fieldTypeInt32) EXCEPT !.required = TRUE,
                                                !.proto3Optional = TRUE]>>])
  @@ (Pkg \o "Cuttlefish" :> [name |-> "Cuttlefish", field |-> <<
      Scalar("alive", fieldTypeBool), Scalar("label", fieldTypeString),
      Scalar("ink", fieldTypeBytes),
      [Scalar("arms", fieldTypeString) EXCEPT !.label = fieldLabelRepeated],
      Scalar("kind", fieldTypeEnum)>>])
  @@ (Pkg \o "Scallop" :> [name |-> "Scallop", field |-> <<
      Scalar("mass_kg", fieldTypeInt32),
      Msg("mantle", Pkg \o "Mantle", fieldLabelOptional)>>])
  @@ (".identify.IdentifyRequest" :> [name |-> "IdentifyRequest", field |-> <<
      Scalar("kingdom", fieldTypeInt32), Scalar("phylum", fieldTypeInt32),
      Scalar("mass_kg", fieldTypeInt32), Scalar("guess", fieldTypeInt32)>>])
  @@ (".google.cloud.foo.v1.Foo" :> [name |-> "Foo", field |-> <<
      [Scalar("size", fieldTypeInt32) EXCEPT !.required = TRUE],
      [Scalar("other", fieldTypeString) EXCEPT !.proto3Optional = TRUE]>>])

Messages == DOMAIN Type

\* A *FieldDescriptorProto: the idx-th field of message msg.
FieldRef(msg, idx) == [msg |-> msg, idx |-> idx]

\* The nil *FieldDescriptorProto.
NilField == [msg |-> "", idx |-> 0]

\* &descriptor.FieldDescriptorProto{}: a fresh descriptor, no field of the schema.
EmptyField == [msg |-> "", idx |-> -1]

\* Every field descriptor of the schema.
Fields == UNION {{FieldRef(n, i) : i \in 1..Len(Type[n].field)} : n \in Messages}

\* The descriptor a pointer points to.
Desc(f) == descInfo[f.msg].field[f.idx]

----------------------------------------------------------------------------
(* getLeafs *)

\* contains: pointer identity of field descriptors.
contains(fields, field) == \E i \in 1..Len(fields) : field = fields[i]

\* handleLeaf keyed by the field's own name, without the names on the stack.
handleLeaf_NoStack(pathsToLeafs, field, stack) ==
  MapPut(pathsToLeafs, Desc(field).name, field)

\* handleLeaf: the key is the dot-joined names of the stack and the field.
handleLeaf(pathsToLeafs, field, stack) ==
  LET elts == [i \in 1..Len(stack) |-> Desc(stack[i]).name] \o <<Desc(field).name>>
      key == Join(elts, <<Dot>>)
  IN MapPut(pathsToLeafs, key, field)

RECURSIVE recurse(_, _, _, _, _)

\* handleMsg whose cycle guard misses the last field pushed on the stack.
handleMsg_StackOffByOne(pathsToLeafs, excludedFields, field, stack) ==
  IF Desc(field).label = fieldLabelRepeated THEN pathsToLeafs
  ELSE IF contains(excludedFields, field) THEN pathsToLeafs
  ELSE IF contains(SubSeq(stack, 1, Len(stack) - 1), field) THEN pathsToLeafs
  ELSE recurse(pathsToLeafs, excludedFields, Append(stack, field), Desc(field).typeName, 1)

\* handleMsg without the guard on repeated fields.
handleMsg_NoRepeatedGuard(pathsToLeafs, excludedFields, field, stack) ==
  IF contains(excludedFields, field) THEN pathsToLeafs
  ELSE IF contains(stack, field) THEN pathsToLeafs
  ELSE recurse(pathsToLeafs, excludedFields, Append(stack, field), Desc(field).typeName, 1)

\* handleMsg without the guard on excluded fields.
handleMsg_NoExcludedGuard(pathsToLeafs, excludedFields, field, stack) ==
  IF Desc(field).label = fieldLabelRepeated THEN pathsToLeafs
  ELSE IF contains(stack, field) THEN pathsToLeafs
  ELSE recurse(pathsToLeafs, excludedFields, Append(stack, field), Desc(field).typeName, 1)

\* handleMsg: descend into a singular, non-excluded message field that is not
\* already on the stack.
handleMsg(pathsToLeafs, excludedFields, field, stack) ==
  IF Desc(field).label = fieldLabelRepeated THEN pathsToLeafs
  ELSE IF contains(excludedFields, field) THEN pathsToLeafs
  ELSE IF contains(stack, field) THEN pathsToLeafs
  ELSE recurse(pathsToLeafs, excludedFields, Append(stack, field), Desc(field).typeName, 1)

\* recurse: the loop over m.GetField(), from its i-th field on.
recurse(pathsToLeafs, excludedFields, stack, m, i) ==
  IF i > Len(descInfo[m].field) THEN pathsToLeafs
  ELSE LET field == FieldRef(m, i)
           next == IF Desc(field).type = fieldTypeMessage
                   THEN handleMsg(pathsToLeafs, excludedFields, field, stack)
                   ELSE handleLeaf(pathsToLeafs, field, stack)
       IN recurse(next, excludedFields, stack, m, i + 1)

getLeafs(msg, excludedFields) == recurse(EmptyMap, excludedFields, <<>>, msg, 1)

----------------------------------------------------------------------------
(* Methods and their HTTP annotation *)

emptyType == ".google.protobuf.Empty"

\* m.GetOptions() == nil
NilOptions == [set |-> FALSE, http |-> FALSE, pattern |-> "", url |-> <<>>, body |-> <<>>]

\* Options without the google.api.http extension.
OptionsNoHTTP == [set |-> TRUE, http |-> FALSE, pattern |-> "", url |-> <<>>, body |-> <<>>]

\* Options carrying an HttpRule.
HttpRule(pattern, url, body) ==
  [set |-> TRUE, http |-> TRUE, pattern |-> pattern, url |-> Bytes(url), body |-> Bytes(body)]

\* The nil *httpInfo.
NilInfo == [nil |-> TRUE, verb |-> "", url |-> <<>>, body |-> <<>>]

\* getHTTPInfo: nil without options; otherwise the rule's body, and the verb
\* and URL of one of the five patterns (both empty for any other pattern and
\* for the unset extension, whose getters return zero values).
getHTTPInfo(m) ==
  IF ~m.options.set THEN NilInfo
  ELSE LET httpRule == m.options
           known == httpRule.http /\ httpRule.pattern \in {"get", "post", "patch", "put", "delete"}
       IN [nil |-> FALSE,
           verb |-> IF known THEN httpRule.pattern ELSE "",
           url |-> IF known THEN httpRule.url ELSE <<>>,
           body |-> IF httpRule.http THEN httpRule.body ELSE <<>>]

----------------------------------------------------------------------------
(* lookupField *)

\* The index of the field of message msg named seg, 0 if there is none.
FieldIndex(msg, seg) ==
  LET hits == {i \in 1..Len(descInfo[msg].field) : descInfo[msg].field[i].name = seg}
  IN IF hits = {} THEN 0 ELSE CHOOSE i \in hits : \A j \in hits : i <= j

RECURSIVE lookupSegs(_, _, _)
lookupSegs(msg, segs, i) ==
  LET idx == FieldIndex(msg, segs[i])
  IN IF idx = 0 THEN NilField
     ELSE IF i = Len(segs) THEN FieldRef(msg, idx)
     ELSE IF descInfo[msg].field[idx].type # fieldTypeMessage THEN NilField
     ELSE lookupSegs(descInfo[msg].field[idx].typeName, segs, i + 1)

\* lookupField: the field a dotted path names, starting at the message that
\* g.descInfo.Type holds under msgName; nil when the name is no key of the
\* map or the path does not resolve.
lookupField(msgName, field) ==
  IF msgName \notin DOMAIN descInfo THEN NilField
  ELSE lookupSegs(msgName, Split(field, Dot), 1)

----------------------------------------------------------------------------
(* The two regular expressions *)

\* The least j >= i with s[j] in cs, 0 if there is none.
RECURSIVE IndexAny(_, _, _)
IndexAny(s, cs, i) ==
  IF i > Len(s) THEN 0
  ELSE IF s[i] \in cs THEN i
  ELSE IndexAny(s, cs, i + 1)

\* regexp "{([^}]+)}", FindAllStringSubmatch(s, -1) from offset i: the
\* first groups of the leftmost non-overlapping matches.
RECURSIVE pathParamMatches(_, _)
pathParamMatches(s, i) ==
  LET open == IndexAny(s, {LBrace}, i)
      close == IF open = 0 THEN 0 ELSE IndexAny(s, {RBrace}, open + 1)
  IN IF open = 0 \/ close = 0 THEN <<>>
     ELSE IF close = open + 1 THEN pathParamMatches(s, open + 1)
     ELSE <<SubSeq(s, open + 1, close - 1)>> \o pathParamMatches(s, close + 1)

\* [a-zA-Z0-9_.]
IsIdentChar(c) == c \in (97..122) \cup (65..90) \cup (48..57) \cup {95, Dot}

\* The last index of the run of [a-zA-Z0-9_.] bytes starting at i (i - 1 if
\* s[i] is none).
RECURSIVE IdentRunEnd(_, _)
IdentRunEnd(s, i) ==
  IF i > Len(s) \/ ~IsIdentChar(s[i]) THEN i - 1 ELSE IdentRunEnd(s, i + 1)

\* regexp `{([a-zA-Z0-9_.]+?)(=[^{}]+)?}` anchored at the "{" at open: the
\* index of the closing brace and the first group, end = 0 for no match.
urlMatchAt(s, open) ==
  LET r == IdentRunEnd(s, open + 1)
      k == r + 1
      e == IF k <= Len(s) /\ s[k] = Equals THEN IndexAny(s, {LBrace, RBrace}, k + 1) ELSE 0
      NoMatch == [end |-> 0, group |-> <<>>]
  IN IF r < open + 1 \/ k > Len(s) THEN NoMatch
     ELSE IF s[k] = RBrace THEN [end |-> k, group |-> SubSeq(s, open + 1, r)]
     ELSE IF s[k] = Equals /\ e > k + 1 /\ s[e] = RBrace
          THEN [end |-> e, group |-> SubSeq(s, open + 1, r)]
     ELSE NoMatch

\* re.FindAllStringSubmatch(info.url, -1) from offset i: the first groups.
RECURSIVE urlMatches(_, _)
urlMatches(s, i) ==
  LET open == IndexAny(s, {LBrace}, i)
  IN IF open = 0 THEN <<>>
     ELSE LET mt == urlMatchAt(s, open)
          IN IF mt.end = 0 THEN urlMatches(s, open + 1)
             ELSE <<mt.group>> \o urlMatches(s, mt.end + 1)

\* re.ReplaceAllStringFunc(fmtStr, "%v") from offset i.
RECURSIVE urlFormat(_, _)
urlFormat(s, i) ==
  LET open == IndexAny(s, {LBrace}, i)
  IN IF open = 0 THEN SubSeq(s, i, Len(s))
     ELSE LET mt == urlMatchAt(s, open)
          IN IF mt.end = 0 THEN SubSeq(s, i, open) \o urlFormat(s, open + 1)
             ELSE SubSeq(s, i, open - 1) \o <<37, 118>> \o urlFormat(s, mt.end + 1)

----------------------------------------------------------------------------
(* pathParams, queryParams *)

\* The loop of pathParams storing the looked-up field even when it is nil.
RECURSIVE pathParamsLoop_KeepNil(_, _, _, _)
pathParamsLoop_KeepNil(acc, m, ps, i) ==
  IF i > Len(ps) THEN acc
  ELSE pathParamsLoop_KeepNil(MapPut(acc, ps[i], lookupField(m.inputType, ps[i])),
                              m, ps, i + 1)

\* The loop of pathParams over the matches, from the i-th on.
RECURSIVE pathParamsLoop(_, _, _, _)
pathParamsLoop(acc, m, ps, i) ==
  IF i > Len(ps) THEN acc
  ELSE LET param == ps[i]
           field == lookupField(m.inputType, param)
       IN pathParamsLoop(IF field = NilField THEN acc ELSE MapPut(acc, param, field),
                         m, ps, i + 1)

pathParams(m) ==
  LET info == getHTTPInfo(m)
  IN IF info.nil THEN EmptyMap
     ELSE With(pathParamMatches(info.url, 1), LAMBDA ps : pathParamsLoop(EmptyMap, m, ps, 1))

\* The body of the loop of queryParams: whether a leaf is kept.
isQueryParam(m, pathParamsAndBody, path, leaf) ==
  /\ path \notin DOMAIN pathParamsAndBody
  /\ lookupField(descInfo[m.inputType].name, Desc(leaf).name) = NilField

queryParams(m) ==
  LET info == getHTTPInfo(m)
  IN IF info.nil THEN EmptyMap
     ELSE IF info.body = <<Star>> THEN EmptyMap
     ELSE LET bodyField == lookupField(m.inputType, info.body) IN
          With(<<MapPut(pathParams(m), info.body, EmptyField),
                 getLeafs(m.inputType, <<bodyField>>)>>,
               LAMBDA a :
                 LET withBody == a[1]
                     pathToLeaf == a[2]
                     keep == {path \in DOMAIN pathToLeaf :
                                isQueryParam(m, withBody, path, pathToLeaf[path])}
                 IN [path \in keep |-> pathToLeaf[path]])

----------------------------------------------------------------------------
(* generateQueryString, generateURLString *)

\* g.printf: append one line to the output buffer.
printf(g, line) == [g EXCEPT !.pt = Append(@, line)]

\* g.printf for each of the lines, in order.
printAll(g, lines) == [g EXCEPT !.pt = @ \o lines]

\* A line of fixed text.
Text(t) == [kind |-> "text", text |-> t]

\* One insertion step of sort.Strings.
insertSorted(sorted, x) ==
  LET n == Cardinality({i \in 1..Len(sorted) : ~StrLess(x, sorted[i])})
  IN SubSeq(sorted, 1, n) \o <<x>> \o SubSeq(sorted, n + 1, Len(sorted))

\* sort.Strings(fields): the first n fields, sorted.
RECURSIVE sortPrefix(_, _)
sortPrefix(fields, n) ==
  IF n = 0 THEN <<>>
  ELSE With(sortPrefix(fields, n - 1), LAMBDA sorted : insertSorted(sorted, fields[n]))

sortStrings(fields) == sortPrefix(fields, Len(fields))

\* isRequired(field)
isRequired(field) == Desc(field).required

\* The lines of generateQueryString with every required field added regardless.
queryParamLines_RequiredAlone(path, field) ==
  LET d == Desc(field)
      singularPrimitive == /\ d.type # fieldTypeMessage
                           /\ d.type # fieldTypeBytes
                           /\ d.label # fieldLabelRepeated
      paramAdd == [kind |-> "paramAdd", path |-> path]
      toks == Split(path, Dot)
      parentField == Join(SubSeq(toks, 1, Len(toks) - 1), <<Dot>>)
      guard ==
        IF d.label = fieldLabelRepeated THEN [kind |-> "if", cond |-> "!= nil", path |-> path]
        ELSE IF d.proto3Optional
          THEN [kind |-> "if", cond |-> "parent != nil && direct != nil", path |-> path,
                parent |-> parentField]
        ELSE IF d.type \in {fieldTypeMessage, fieldTypeBytes}
          THEN [kind |-> "if", cond |-> "!= nil", path |-> path]
        ELSE IF d.type = fieldTypeString
          THEN [kind |-> "if", cond |-> "!= \"\"", path |-> path]
        ELSE IF d.type = fieldTypeBool
          THEN [kind |-> "if", cond |-> "true", path |-> path]
        ELSE [kind |-> "if", cond |-> "!= 0", path |-> path]
  IN IF isRequired(field) THEN <<paramAdd>>
     ELSE <<guard, paramAdd, Text("}")>>

\* The lines generateQueryString prints for one query parameter.  The text
\* of an accessor (fieldGetter, directAccess) and of the parameter's key
\* (lowerFirst(snakeToCamel(path))) is named by the path it is made from.
queryParamLines(path, field) ==
  LET d == Desc(field)
      singularPrimitive == /\ d.type # fieldTypeMessage
                           /\ d.type # fieldTypeBytes
                           /\ d.label # fieldLabelRepeated
      paramAdd == [kind |-> "paramAdd", path |-> path]
      toks == Split(path, Dot)
      parentField == Join(SubSeq(toks, 1, Len(toks) - 1), <<Dot>>)
      guard ==
        IF d.label = fieldLabelRepeated THEN [kind |-> "if", cond |-> "!= nil", path |-> path]
        ELSE IF d.proto3Optional
          THEN [kind |-> "if", cond |-> "parent != nil && direct != nil", path |-> path,
                parent |-> parentField]
        ELSE IF d.type \in {fieldTypeMessage, fieldTypeBytes}
          THEN [kind |-> "if", cond |-> "!= nil", path |-> path]
        ELSE IF d.type = fieldTypeString
          THEN [kind |-> "if", cond |-> "!= \"\"", path |-> path]
        ELSE IF d.type = fieldTypeBool
          THEN [kind |-> "if", cond |-> "true", path |-> path]
        ELSE [kind |-> "if", cond |-> "!= 0", path |-> path]
  IN IF isRequired(field) /\ singularPrimitive THEN <<paramAdd>>
     ELSE <<guard, paramAdd, Text("}")>>

RECURSIVE queryLoop(_, _, _)
queryLoop(queryParamsMap, fields, i) ==
  IF i > Len(fields) THEN <<>>
  ELSE queryParamLines(fields[i], queryParamsMap[fields[i]])
       \o queryLoop(queryParamsMap, fields, i + 1)

\* Every order in which a range over a map with these keys may yield them.
RangeOrders(keys) ==
  {o \in [1..Cardinality(keys) -> keys] : \A i, j \in DOMAIN o : i # j => o[i] # o[j]}

\* The slice the range loop builds, left in the order of the range.
sortedFields_NoSort(rangeOrder) == rangeOrder

\* The slice the range loop over queryParams builds, sorted.
sortedFields(rangeOrder) == sortStrings(rangeOrder)

\* generateQueryString, with the order the range over the map took.
generateQueryString(g, m, rangeOrder) ==
  With(<<queryParams(m), sortedFields(rangeOrder)>>, LAMBDA a :
    LET qp == a[1]
        fields == a[2]
    IN IF DOMAIN qp = {} THEN g
       ELSE printAll(g, <<Text("params := url.Values{}")>>
                        \o queryLoop(qp, fields, 1)
                        \o <<Text(""), Text("baseUrl.RawQuery = params.Encode()"), Text("")>>))

NoErr == "nil"
ErrNoHTTPInfo == "method has no http info"
ErrBodyOnGetDelete == "invalid use of body parameter for a get/delete method"
ErrPagingFields == "getPagingFields"
ErrIterType == "iterTypeOf"

\* generateURLString taking its accessors from the matches of pathParams.
generateURLString_PathParamTokens(g, m) ==
  LET info == getHTTPInfo(m)
  IN IF info.nil THEN [g EXCEPT !.err = ErrNoHTTPInfo]
     ELSE [printAll(g, <<Text("baseUrl, _ := url.Parse(c.endpoint)"),
                         [kind |-> "urlPath", fmtStr |-> urlFormat(info.url, 1),
                          tokens |-> pathParamMatches(info.url, 1)],
                         Text("")>>)
           EXCEPT !.err = NoErr]

\* fmt.Sprintf(format, args...) for a format whose only verb is %v, from
\* the i-th byte of the format and the k-th argument on.
RECURSIVE SprintfFrom(_, _, _, _)
SprintfFrom(format, args, i, k) ==
  IF i > Len(format)
    THEN IF k <= Len(args) THEN Bytes("%!(EXTRA)") ELSE <<>>
  ELSE IF format[i] = 37 /\ i < Len(format) /\ format[i + 1] = 118
    THEN (IF k <= Len(args) THEN args[k] ELSE Bytes("%!v(MISSING)"))
         \o SprintfFrom(format, args, i + 2, k + 1)
  ELSE <<format[i]>> \o SprintfFrom(format, args, i + 1, k)

Sprintf(format, args) == SprintfFrom(format, args, 1, 1)

\* generateURLString: the format string and one accessor per match of the
\* second regular expression, in template order.
generateURLString(g, m) ==
  LET info == getHTTPInfo(m)
  IN IF info.nil THEN [g EXCEPT !.err = ErrNoHTTPInfo]
     ELSE [printAll(g, <<Text("baseUrl, _ := url.Parse(c.endpoint)"),
                         [kind |-> "urlPath", fmtStr |-> urlFormat(info.url, 1),
                          tokens |-> urlMatches(info.url, 1)],
                         Text("")>>)
           EXCEPT !.err = NoErr]

----------------------------------------------------------------------------
(* The call-strategy synthesizers *)

\* strings.ToUpper(info.verb)
ToUpper(verb) ==
  CASE verb = "get" -> "GET" [] verb = "post" -> "POST" [] verb = "patch" -> "PATCH"
    [] verb = "put" -> "PUT" [] verb = "delete" -> "DELETE" [] OTHER -> ""

MethodGet == "GET"
MethodDelete == "DELETE"

\* Entering a synthesizer.
enter(g, strategy) == [g EXCEPT !.invoked = Append(@, strategy)]

import(g, specs) == [g EXCEPT !.imports = @ \cup specs]

return(g, err) == [g EXCEPT !.err = err]

\* The function header a synthesizer prints.
Func(strategy, m) == [kind |-> "func", strategy |-> strategy, method |-> m.name]

NotSupported(m) == [kind |-> "return nil, fmt.Errorf(not yet supported for REST clients)",
                    method |-> m.name]

\* The lines building and sending the request, and checking the response.
NewRequest(verb, body) == [kind |-> "http.NewRequest", verb |-> verb, body |-> body]

\* serverStreamRESTCall building a request before it returns.
serverStreamRESTCall_BuildsRequest(g0, m) ==
  LET g == import(enter(g0, "serverStreamRESTCall"), {m.inputType, "service"})
  IN return(printAll(g, <<Func("serverStream", m), NewRequest("POST", "nil"), NotSupported(m),
                          Text("}"), Text("")>>), NoErr)

serverStreamRESTCall(g0, m) ==
  LET g == import(enter(g0, "serverStreamRESTCall"), {m.inputType, "service"})
  IN return(printAll(g, <<Func("serverStream", m), NotSupported(m), Text("}"), Text("")>>), NoErr)

noRequestStreamRESTCall(g0, m) ==
  LET g == import(enter(g0, "noRequestStreamRESTCall"), {"service"})
  IN return(printAll(g, <<Func("noRequestStream", m), NotSupported(m), Text("}"), Text("")>>), NoErr)

lroRESTCall(g0, m) ==
  LET g == enter(g0, "lroRESTCall")
      g1 == printAll(g, <<Func("lro", m), NotSupported(m), Text("}"), Text("")>>)
  IN return(import(g1, {"cloud.google.com/go/longrunning"}), NoErr)

\* The lines marshaling the body in emptyUnaryRESTCall and unaryRESTCall.
marshalBody(g, info, onError) ==
  LET g1 == printf(g, Text("m := protojson.MarshalOptions{}"))
      g2 == IF info.body # <<Star>>
            THEN printf(g1, [kind |-> "body := req", path |-> info.body])
            ELSE g1
      requestObject == IF info.body # <<Star>> THEN "body" ELSE "req"
  IN printAll(g2, <<[kind |-> "jsonReq, err := m.Marshal", object |-> requestObject],
                    Text("if err != nil {"), Text(onError), Text("}"), Text("")>>)

emptyUnaryRESTCall(g0, m, rangeOrder) ==
  LET g == enter(g0, "emptyUnaryRESTCall")
      info == getHTTPInfo(m)
      verb == ToUpper(info.verb)
      g1 == printf(g, Func("emptyUnary", m))
      hasBody == info.body # <<>>
      g2 == IF hasBody
            THEN import(marshalBody(g1, info, "return err"),
                        {"bytes", "google.golang.org/protobuf/encoding/protojson"})
            ELSE g1
      body == IF hasBody THEN "bytes.NewReader(jsonReq)" ELSE "nil"
      g3 == generateQueryString(generateURLString(g2, m), m, rangeOrder)
      g4 == printAll(g3, <<
              Text("headers := buildHeaders(ctx, c.xGoogMetadata, ...)"),
              Text("return gax.Invoke(ctx, func(ctx, settings) error {"),
              NewRequest(verb, body),
              Text("if err != nil { return err }"),
              Text("httpReq = httpReq.WithContext(ctx)"),
              Text("httpReq.Header = headers"),
              Text("httpRsp, err := c.httpClient.Do(httpReq)"),
              Text("if err != nil { return err }"),
              Text("defer httpRsp.Body.Close()"),
              Text("return googleapi.CheckResponse(httpRsp)"),
              Text("}, opts...)"),
              Text("}")>>)
  IN IF info.nil THEN return(g, ErrNoHTTPInfo)
     ELSE IF hasBody /\ (verb = MethodGet \/ verb = MethodDelete)
       THEN return(g1, ErrBodyOnGetDelete)
     ELSE return(import(g4, {"google.golang.org/api/googleapi", m.inputType}), NoErr)

unaryRESTCall(g0, m, rangeOrder) ==
  LET g == enter(g0, "unaryRESTCall")
      info == getHTTPInfo(m)
      verb == ToUpper(info.verb)
      isHTTPBodyMessage == m.outputType = ".google.api.HttpBody"
      isCustomOp == m.customOp
      g1 == printf(g, Func("unary", m))
      hasBody == info.body # <<>>
      g2 == IF hasBody
            THEN import(marshalBody(g1, info, "return nil, err"), {"bytes"})
            ELSE g1
      body == IF hasBody THEN "bytes.NewReader(jsonReq)" ELSE "nil"
      g3 == generateQueryString(generateURLString(g2, m), m, rangeOrder)
      g4 == printAll(g3,
              <<Text("headers := buildHeaders(ctx, c.xGoogMetadata, ...)")>>
              \o (IF isHTTPBodyMessage THEN <<>>
                  ELSE <<Text("unm := protojson.UnmarshalOptions{}")>>)
              \o <<[kind |-> "resp := &", type |-> m.outputType],
                   Text("e := gax.Invoke(ctx, func(ctx, settings) error {"),
                   NewRequest(verb, body),
                   Text("if err != nil { return err }"),
                   Text("httpReq = httpReq.WithContext(ctx)"),
                   Text("httpReq.Header = headers"),
                   Text("httpRsp, err := c.httpClient.Do(httpReq)"),
                   Text("if err != nil { return err }"),
                   Text("defer httpRsp.Body.Close()"),
                   Text("if err = googleapi.CheckResponse(httpRsp); err != nil { return err }"),
                   Text("buf, err := ioutil.ReadAll(httpRsp.Body)"),
                   Text("if err != nil { return err }")>>
              \o (IF isHTTPBodyMessage
                  THEN <<Text("resp.Data = buf"),
                         Text("if headers := httpRsp.Header; len(headers[Content-Type]) > 0 {"),
                         Text("resp.ContentType = headers[Content-Type][0]"),
                         Text("}")>>
                  ELSE <<Text("if err := unm.Unmarshal(buf, resp); err != nil {"),
                         Text("return maybeUnknownEnum(err)"),
                         Text("}"), Text(""),
                         Text("return nil")>>)
              \o <<Text("}, opts...)"),
                   Text("if e != nil {"), Text("return nil, e"), Text("}")>>
              \o (IF isCustomOp
                  THEN <<Text("op := customOpInit(resp, req)"), Text("return op, nil")>>
                  ELSE <<Text("return resp, nil")>>)
              \o <<Text("}")>>)
  IN IF info.nil THEN return(g, ErrNoHTTPInfo)
     ELSE IF hasBody /\ (verb = MethodGet \/ verb = MethodDelete)
       THEN return(g1, ErrBodyOnGetDelete)
     ELSE return(import(g4, {"google.golang.org/api/googleapi",
                             "google.golang.org/protobuf/encoding/protojson",
                             m.inputType, m.outputType}), NoErr)

pagingRESTCall(g0, m, rangeOrder) ==
  LET g == enter(g0, "pagingRESTCall")
      info == getHTTPInfo(m)
      verb == ToUpper(info.verb)
      hasBody == info.body # <<>>
      g1 == printAll(import(g, {"math"}),
              <<Func("paging", m), Text("it := &Iterator{}"), Text("req = proto.Clone(req)")>>)
      g2 == IF hasBody
            THEN import(printf(g1, Text("m := protojson.MarshalOptions{}")), {"bytes"})
            ELSE g1
      maybeReqBytes == IF hasBody THEN "bytes.NewReader(jsonReq)" ELSE "nil"
      g3 == printAll(g2, <<Text("unm := protojson.UnmarshalOptions{}"),
                           Text("it.InternalFetch = func(pageSize int, pageToken string) {"),
                           Text("internalFetchSetup")>>)
      g4 == IF hasBody
            THEN printAll(g3, <<[kind |-> "jsonReq, err := m.Marshal", object |-> "req"],
                                Text("if err != nil {"), Text("return nil, \"\", err"),
                                Text("}"), Text("")>>)
            ELSE g3
      g5 == generateQueryString(generateURLString(g4, m), m, rangeOrder)
      g6 == printAll(g5, <<
              Text("headers := buildHeaders(ctx, c.xGoogMetadata, ...)"),
              Text("e := gax.Invoke(ctx, func(ctx, settings) error {"),
              NewRequest(verb, maybeReqBytes),
              Text("if err != nil { return err }"),
              Text("httpReq.Header = headers"),
              Text("httpRsp, err := c.httpClient.Do(httpReq)"),
              Text("if err != nil { return err }"),
              Text("defer httpRsp.Body.Close()"),
              Text("if err = googleapi.CheckResponse(httpRsp); err != nil { return err }"),
              Text("buf, err := ioutil.ReadAll(httpRsp.Body)"),
              Text("if err != nil { return err }"),
              Text("if err := unm.Unmarshal(buf, resp); err != nil {"),
              Text("return maybeUnknownEnum(err)"),
              Text("}"), Text(""),
              Text("return nil"),
              Text("}, opts...)"),
              Text("if e != nil {"), Text("return nil, \"\", e"), Text("}"),
              Text("it.Response = resp"),
              Text("return elems, resp.GetNextPageToken(), nil"),
              Text("}"), Text(""),
              Text("makeFetchAndIterUpdate"),
              Text("}")>>)
  IN IF info.nil THEN return(g, ErrNoHTTPInfo)
     ELSE return(import(g6, {"google.golang.org/api/iterator",
                             "google.golang.org/protobuf/proto",
                             "google.golang.org/protobuf/encoding/protojson",
                             "google.golang.org/api/googleapi",
                             m.inputType, m.outputType}), NoErr)

\* genRESTMethod testing the empty output type before the long-running operation.
genRESTMethod_EmptyBeforeLRO(g, m, rangeOrder) ==
  IF m.outputType = emptyType THEN emptyUnaryRESTCall(g, m, rangeOrder)
  ELSE IF m.lro THEN lroRESTCall([g EXCEPT !.lros = @ \cup {m.name}], m)
  ELSE IF m.paging = "err" THEN return(g, ErrPagingFields)
  ELSE IF m.paging = "fields"
    THEN IF m.iterErr THEN return(g, ErrIterType)
         ELSE pagingRESTCall(g, m, rangeOrder)
  ELSE IF m.clientStreaming THEN noRequestStreamRESTCall(g, m)
  ELSE IF m.serverStreaming THEN serverStreamRESTCall(g, m)
  ELSE unaryRESTCall(g, m, rangeOrder)

\* genRESTMethod: the dispatch.  m.lro is g.isLRO(m); m.paging is what
\* g.getPagingFields(m) answers (an error, no paging field, or the fields)
\* and m.iterErr whether g.iterTypeOf fails.
genRESTMethod(g, m, rangeOrder) ==
  IF m.lro THEN lroRESTCall([g EXCEPT !.lros = @ \cup {m.name}], m)
  ELSE IF m.outputType = emptyType THEN emptyUnaryRESTCall(g, m, rangeOrder)
  ELSE IF m.paging = "err" THEN return(g, ErrPagingFields)
  ELSE IF m.paging = "fields"
    THEN IF m.iterErr THEN return(g, ErrIterType)
         ELSE pagingRESTCall(g, m, rangeOrder)
  ELSE IF m.clientStreaming THEN noRequestStreamRESTCall(g, m)
  ELSE IF m.serverStreaming THEN serverStreamRESTCall(g, m)
  ELSE unaryRESTCall(g, m, rangeOrder)

----------------------------------------------------------------------------
(* The inputs *)

\* The number of fields that may be passed to getLeafs as excluded.
MaxExcluded == 1

Method(inputType, outputType, options, shape) ==
  [name |-> "Identify", inputType |-> inputType, outputType |-> outputType,
   options |-> options, lro |-> shape.lro, paging |-> shape.paging,
   iterErr |-> shape.iterErr, clientStreaming |-> shape.clientStreaming,
   serverStreaming |-> shape.serverStreaming, customOp |-> shape.customOp]

FooType == ".google.cloud.foo.v1.Foo"

Shapes ==
  [lro : BOOLEAN, paging : {"none", "fields", "err"}, iterErr : BOOLEAN,
   clientStreaming : BOOLEAN, serverStreaming : BOOLEAN, customOp : {FALSE}]

PlainShape ==
  [lro |-> FALSE, paging |-> "none", iterErr |-> FALSE, clientStreaming |-> FALSE,
   serverStreaming |-> FALSE, customOp |-> FALSE]

Patterns == {"get", "post", "patch", "put", "delete", "custom"}

URLs ==
  {"/kingdom", "/kingdom/{kingdom}", "/kingdom/{kingdom}/phylum/{phylum}",
   "/kingdom/{kingdom}/phylum/{phylum}/class/{class}", "/v1/foo",
   "/v1/{mantle.mass_kg}/x/{length_m}", "/v1/{mantle}", "/v1/{name=shelves/*}/{}",
   "/v1/{whelk.mass_kg}", "/v1/{kingdom}/phylum/{phylum}",
   "/v1/{shell=shelves/*}"}

Bodies == {"", "*", "guess", "mass_kg", "mantle", "mantle.chromatophore", "left.chromatophore", "whelk"}

\* Methods of every shape the dispatch tells apart.
DispatchMethods ==
  {Method(FooType, out, opts, s) :
     out \in {emptyType, FooType},
     opts \in {NilOptions, HttpRule("post", "/v1/foo", "*")},
     s \in {x \in Shapes : x.iterErr => x.paging = "fields"}}

\* Plain, empty-response and paginated methods under every pattern.
VerbMethods ==
  {Method(".identify.IdentifyRequest", out, opts, [PlainShape EXCEPT !.paging = pg, !.customOp = co]) :
     out \in {emptyType, FooType, ".google.api.HttpBody"},
     opts \in {OptionsNoHTTP} \cup
              {HttpRule(pat, "/kingdom/{kingdom}", b) : pat \in Patterns, b \in {"", "*", "guess"}},
     pg \in {"none", "fields"}, co \in BOOLEAN}

\* Plain methods over every input message, URL template and body selector.
ParamMethods ==
  {Method(inT, FooType, HttpRule(pat, url, b), PlainShape) :
     inT \in Messages, pat \in {"get", "post"}, url \in URLs, b \in Bodies}

Methods == DispatchMethods \cup VerbMethods \cup ParamMethods

\* The slices of at most MaxExcluded fields, the nil field among them.
ExcludedSlices ==
  UNION {[1..n -> Fields \cup {NilField}] : n \in 0..MaxExcluded}

----------------------------------------------------------------------------
(* The operation handle of the generated client *)

\* The number of polls of one Wait call that are followed.
MaxPolls == 3

\* A nil *foopb.Operation; its getters return zero values.
NilOperation == [nil |-> TRUE, name |-> "", status |-> FALSE, error |-> ""]

\* The operation messages the service returns: the name, the status that
\* tells completion, and the failure the operation recorded, "" for none.
Operations ==
  [nil : {FALSE}, name : {"operation-1"}, status : BOOLEAN, error : {"", "operation failed"}]

ErrGet == "rpc error"

ErrContext == "context canceled"

\* What h.c.Get returns: an operation and no error, or nil and an error.
GetResults ==
  {[resp |-> o, err |-> NoErr] : o \in Operations}
    \cup {[resp |-> NilOperation, err |-> ErrGet]}

\* Wait has not returned.
Pending == "pending"

\* Operation.Done reporting completion for every operation that is not nil.
Done_WheneverPolled(o) == ~o.nil

\* Operation.Done: the status of the cached operation message.
Done(o) == o.status

\* fooOperationsHandle.Poll assigning the response before it tests the error.
Poll_AssignBeforeErrorCheck(h, got) ==
  IF got.err # NoErr THEN [h |-> [h EXCEPT !.proto = got.resp], err |-> got.err]
  ELSE [h |-> [h EXCEPT !.proto = got.resp], err |-> NoErr]

\* fooOperationsHandle.Poll, given what h.c.Get returned: the handle
\* afterwards and the error returned.
Poll(h, got) ==
  IF got.err # NoErr THEN [h |-> h, err |-> got.err]
  ELSE [h |-> [h EXCEPT !.proto = got.resp], err |-> NoErr]

\* gax.Sleep(ctx, d): the error of the context if it is done before the
\* pause is over, nil otherwise.
Sleep(done) == IF done THEN ErrContext ELSE NoErr

----------------------------------------------------------------------------
(* The page iterator of the generated client *)

\* The number of pages a service holds.
MaxPages == 2

\* The number of calls of Next that are followed.
MaxNext == 5

\* The width of int32 in bits, scaled down; int has twice the width.
Int32Bits == 4

\* math.MaxInt32 and math.MinInt32 at that width.
MaxInt32 == 2^(Int32Bits - 1) - 1

MinInt32 == -(2^(Int32Bits - 1))

\* The conversion int32(v) of an int: the low bits, as a signed number.
int32(v) == ((v - MinInt32) % 2^Int32Bits) + MinInt32

\* The empty page token and the token that names the i-th page.
EmptyToken == 0

\* iterator.Done.
IteratorDone == "no more items in iterator"

ErrFetch == "rpc error"

\* A page the service returns, and a page it fails to return.
Page(items) == [err |-> FALSE, items |-> items]

ErrPage == [err |-> TRUE, items |-> <<>>]

\* What a page may hold.
PageContents == {<<>>, <<"a", "b">>, <<"c">>}

\* The services: the pages in order.
Services ==
  UNION {[1..n -> {Page(items) : items \in PageContents} \cup {ErrPage}] : n \in 1..MaxPages}

\* The page sizes a caller may pass, in and out of the range of int32.
PageSizes == {0, 1, MaxInt32, MaxInt32 + 1, -1, MinInt32, MinInt32 - 1}

\* A nil *PageOutputType.
NilResponse == [nil |-> TRUE, items |-> <<>>, nextPageToken |-> EmptyToken]

\* The round trip of a fetch: the page after the one req.PageToken names,
\* with the token of the next page, empty on the last page; an error for an
\* ErrPage and for a token that names no page.
GetManyThings(service, request) ==
  LET i == request.PageToken + 1
  IN IF i > Len(service) \/ i < 1 THEN [resp |-> NilResponse, err |-> ErrFetch]
     ELSE IF service[i].err THEN [resp |-> NilResponse, err |-> ErrFetch]
     ELSE [resp |-> [nil |-> FALSE, items |-> service[i].items,
                     nextPageToken |-> IF i < Len(service) THEN i ELSE EmptyToken],
           err |-> NoErr]

\* The iterator, the cloned request and the log of fetches, as the closures
\* of GetManyThings share them.
IterState(i, r, f) == [it |-> i, req |-> r, fetches |-> f]

\* it.InternalFetch(pageSize, pageToken): sets the token and the page size
\* of the request, makes the round trip, and on success sets it.Response.
InternalFetch(s, service, pageSize, pageToken) ==
  LET r1 == IF pageToken # EmptyToken THEN [s.req EXCEPT !.PageToken = pageToken] ELSE s.req
      r2 == IF pageSize > MaxInt32 THEN [r1 EXCEPT !.PageSize = MaxInt32]
            ELSE IF pageSize # 0 THEN [r1 EXCEPT !.PageSize = int32(pageSize)]
            ELSE r1
      got == GetManyThings(service, r2)
      logged == Append(s.fetches, [pageSize |-> pageSize, pageToken |-> pageToken,
                                   before |-> s.req, sent |-> r2, err |-> got.err])
  IN IF got.err # NoErr
       THEN [s |-> IterState(s.it, r2, logged),
             results |-> <<>>, nextPageToken |-> EmptyToken, err |-> got.err]
       ELSE [s |-> IterState([s.it EXCEPT !.Response = got.resp], r2, logged),
             results |-> got.resp.items, nextPageToken |-> got.resp.nextPageToken,
             err |-> NoErr]

\* fetch: InternalFetch, and the items appended to it.items.
fetch(s, service, pageSize, pageToken) ==
  LET append(f) ==
        IF f.err # NoErr THEN [s |-> f.s, tok |-> EmptyToken, err |-> f.err]
        ELSE [s |-> [f.s EXCEPT !.it.items = @ \o f.results],
              tok |-> f.nextPageToken, err |-> NoErr]
  IN append(InternalFetch(s, service, pageSize, pageToken))

\* it.bufLen and it.takeBuf.
bufLen(i) == Len(i.items)

takeBuf(i) == [i EXCEPT !.items = <<>>]

\* PageInfo.fill: fetch with the current token; the token it returns is
\* kept, and the buffer is cleared on an error.
fill(s, service, size) ==
  LET keep(f) ==
        IF f.err # NoErr THEN [s |-> [f.s EXCEPT !.it = takeBuf(@)], err |-> f.err]
        ELSE [s |-> [f.s EXCEPT !.it.Token = f.tok], err |-> NoErr]
  IN keep(fetch(s, service, size, s.it.Token))

\* The loop of PageInfo.next: fill until there are items or the end is reached.
RECURSIVE fillLoop(_, _)
fillLoop(s, service) ==
  LET again(f) ==
        IF f.err # NoErr THEN [f.s EXCEPT !.it.err = f.err]
        ELSE fillLoop(IF f.s.it.Token = EmptyToken
                        THEN [f.s EXCEPT !.it.atEnd = TRUE] ELSE f.s,
                      service)
  IN IF bufLen(s.it) = 0 /\ ~s.it.atEnd
       THEN again(fill(s, service, s.it.MaxSize))
       ELSE s

\* it.nextFunc, the next of the PageInfo that iterator.NewPageInfo returns:
\* an error once returned is returned again; Done when the loop leaves the
\* buffer empty.
nextFunc(s, service) ==
  LET doneIfEmpty(l) ==
        IF l.it.err # NoErr THEN l
        ELSE IF bufLen(l.it) = 0 THEN [l EXCEPT !.it.err = IteratorDone]
        ELSE l
  IN IF s.it.err # NoErr THEN s ELSE doneIfEmpty(fillLoop(s, service))

\* StringIterator.Next leaving the item it returns in the buffer.
Next_KeepsItem(s, service) ==
  LET first(n) ==
        IF n.it.err # NoErr THEN [s |-> n, item |-> "", err |-> n.it.err]
        ELSE [s |-> n, item |-> n.it.items[1], err |-> NoErr]
  IN first(nextFunc(s, service))

\* StringIterator.Next.
StringIteratorNext(s, service) ==
  LET take(n) ==
        IF n.it.err # NoErr THEN [s |-> n, item |-> "", err |-> n.it.err]
        ELSE [s |-> [n EXCEPT !.it.items = Tail(@)], item |-> n.it.items[1],
              err |-> NoErr]
  IN take(nextFunc(s, service))

\* No iterator.
IterIdle ==
  /\ it = [items |-> <<>>, Response |-> NilResponse, MaxSize |-> 0, Token |-> EmptyToken,
           atEnd |-> FALSE, err |-> NoErr]
  /\ req = [PageSize |-> 0, PageToken |-> EmptyToken]
  /\ callerReq = [PageSize |-> 0, PageToken |-> EmptyToken]
  /\ pages = <<>>
  /\ fetches = <<>>
  /\ yielded = <<>>

----------------------------------------------------------------------------
(* The calls of the generated REST client *)

\* The number of callers that use one client at the same time.
NumCallers == 2

Callers == 1..NumCallers

\* The client NewRESTClient returns.
NewRESTClient ==
  [endpoint |-> "https://foo.googleapis.com", httpClient |-> "httpClient",
   operationClient |-> "opC", xGoogMetadata |-> "x-goog-api-client: gl-go gapic gax rest"]

\* The generated methods that make a round trip: the empty-response call,
\* the plain unary call, the custom-operation call and the fetch of a page.
Kinds == {"EmptyRPC", "Unary", "CustomOp", "Fetch"}

\* The methods whose request is given the context of the call.
WithContext == {"EmptyRPC", "Unary", "CustomOp"}

\* What the service and the connection do to a request.
Outcomes == {"transport fails", "bad status", "read fails", "decoding fails",
             "unknown enum", "ok"}

ErrTransport == "transport error"

ErrStatus == "googleapi: bad status"

ErrRead == "read error"

ErrDecode == "proto: syntax error"

ErrEnum == "proto: invalid value for enum type"

ErrNilClient == "panic: nil pointer dereference"

\* maybeUnknownEnum: an error of an unknown enum value may be tolerated;
\* every other error is returned.
maybeUnknownEnum(err, tolerate) == IF err = ErrEnum /\ tolerate THEN NoErr ELSE err

\* The function passed to gax.Invoke: the request is built, given the
\* context where the method does so, and sent by c.httpClient; then the
\* status is checked, the body read and decoded.  The error it returns.
invokedFunc(kind, c, done, outcome, tolerate) ==
  IF c.httpClient = "nil" THEN ErrNilClient
  ELSE IF kind \in WithContext /\ done THEN ErrContext
  ELSE IF outcome = "transport fails" THEN ErrTransport
  ELSE IF outcome = "bad status" THEN ErrStatus
  ELSE IF kind = "EmptyRPC" THEN NoErr
  ELSE IF outcome = "read fails" THEN ErrRead
  ELSE IF outcome = "decoding fails" THEN maybeUnknownEnum(ErrDecode, tolerate)
  ELSE IF outcome = "unknown enum" THEN maybeUnknownEnum(ErrEnum, tolerate)
  ELSE NoErr

\* What a call returns: the result, the page token and the error.
Returned(resp, tok, err) == [resp |-> resp, nextPageToken |-> tok, err |-> err]

NotReturned == Returned("none", EmptyToken, Pending)

\* A call that has not begun.
IdleCaller ==
  [cpc |-> "idle", kind |-> "none", ctxDone |-> FALSE, outcome |-> "none",
   tolerate |-> FALSE, baseUrl |-> "", headers |-> "",
   it |-> [items |-> <<>>, Response |-> NilResponse], ret |-> NotReturned]

\* The first statements of a call caching the headers in the client.
start_CachesHeaders(c, caller, kind, outcome) ==
  [c |-> [c EXCEPT !.xGoogMetadata = "Content-Type: application/json"],
   caller |-> [caller EXCEPT !.cpc = "built", !.kind = kind, !.outcome = outcome,
                             !.baseUrl = c.endpoint, !.headers = c.xGoogMetadata]]

\* The first statements of a call: the URL from c.endpoint and the headers
\* from c.xGoogMetadata.  The client and the caller afterwards.
start(c, caller, kind, outcome) ==
  [c |-> c,
   caller |-> [caller EXCEPT !.cpc = "built", !.kind = kind, !.outcome = outcome,
                             !.baseUrl = c.endpoint, !.headers = c.xGoogMetadata]]

\* The call of unaryRESTCall returning the response along with the error.
finish_KeepsResponse(c, caller, tolerate) ==
  LET e == invokedFunc(caller.kind, c, caller.ctxDone, caller.outcome, tolerate)
      done == [caller EXCEPT !.cpc = "returned", !.tolerate = tolerate]
  IN [c |-> c, caller |-> [done EXCEPT !.ret = Returned("resp", EmptyToken, e)]]

\* The rest of a call: gax.Invoke of the function, and the return.
finish(c, caller, tolerate) ==
  LET e == invokedFunc(caller.kind, c, caller.ctxDone, caller.outcome, tolerate)
      done == [caller EXCEPT !.cpc = "returned", !.tolerate = tolerate]
  IN [c |-> c,
      caller |->
        CASE caller.kind = "EmptyRPC" -> [done EXCEPT !.ret = Returned("none", EmptyToken, e)]
          [] caller.kind = "Unary" ->
               [done EXCEPT !.ret = IF e # NoErr THEN Returned("nil", EmptyToken, e)
                                    ELSE Returned("resp", EmptyToken, NoErr)]
          [] caller.kind = "CustomOp" ->
               [done EXCEPT !.ret = IF e # NoErr THEN Returned("nil", EmptyToken, e)
                                    ELSE Returned("op", EmptyToken, NoErr)]
          [] caller.kind = "Fetch" ->
               IF e # NoErr
                 THEN [done EXCEPT !.ret = Returned("nil", EmptyToken, e)]
                 ELSE [done EXCEPT !.it = [items |-> @.items \o <<"a", "b">>,
                                           Response |-> [nil |-> FALSE,
                                                         items |-> <<"a", "b">>,
                                                         nextPageToken |-> 1]],
                                   !.ret = Returned("items", 1, NoErr)]]

\* No client.
CallIdle ==
  /\ client = NewRESTClient
  /\ callers = [i \in Callers |-> IdleCaller]

----------------------------------------------------------------------------
(* The state machine: one operation applied to a fresh generator *)

G == [pt |-> pt, imports |-> imports, lros |-> lros, invoked |-> invoked, err |-> NoErr]

SetG(g) ==
  /\ pt' = g.pt
  /\ imports' = g.imports
  /\ lros' = g.lros
  /\ invoked' = g.invoked
  /\ UNCHANGED <<descInfo, waitVars, iterVars, callVars>>

Init ==
  /\ pc = "idle"
  /\ call = [op |-> "none"]
  /\ result = [err |-> NoErr]
  /\ pt = <<>>
  /\ imports = {}
  /\ lros = {}
  /\ invoked = <<>>
  /\ descInfo = Type
  /\ wpc = "none"
  /\ proto = NilOperation
  /\ ctxDone = FALSE
  /\ responses = <<>>
  /\ events = <<>>
  /\ ret = Pending
  /\ IterIdle
  /\ CallIdle

GetLeafs ==
  /\ pc = "idle"
  /\ \E msg \in Messages, excludedFields \in ExcludedSlices :
       /\ call' = [op |-> "getLeafs", msg |-> msg, excludedFields |-> excludedFields]
       /\ result' = [leafs |-> getLeafs(msg, excludedFields)]
  /\ pc' = "done"
  /\ UNCHANGED <<pt, imports, lros, invoked, descInfo, waitVars, iterVars, callVars>>

PathParams ==
  /\ pc = "idle"
  /\ \E m \in Methods :
       /\ call' = [op |-> "pathParams", m |-> m]
       /\ result' = [params |-> pathParams(m)]
  /\ pc' = "done"
  /\ UNCHANGED <<pt, imports, lros, invoked, descInfo, waitVars, iterVars, callVars>>

QueryParams ==
  /\ pc = "idle"
  /\ \E m \in Methods :
       /\ call' = [op |-> "queryParams", m |-> m]
       /\ result' = [params |-> queryParams(m)]
  /\ pc' = "done"
  /\ UNCHANGED <<pt, imports, lros, invoked, descInfo, waitVars, iterVars, callVars>>

GenerateQueryString ==
  /\ pc = "idle"
  /\ \E m \in Methods :
       \E rangeOrder \in RangeOrders(DOMAIN queryParams(m)) :
         /\ call' = [op |-> "generateQueryString", m |-> m, rangeOrder |-> rangeOrder]
         /\ SetG(generateQueryString(G, m, rangeOrder))
  /\ result' = [err |-> NoErr]
  /\ pc' = "done"

GenerateURLString ==
  /\ pc = "idle"
  /\ \E m \in Methods :
       LET g == generateURLString(G, m)
       IN /\ call' = [op |-> "generateURLString", m |-> m]
          /\ SetG(g)
          /\ result' = [err |-> g.err]
  /\ pc' = "done"

GenRESTMethod ==
  /\ pc = "idle"
  /\ \E m \in Methods :
       \E rangeOrder \in RangeOrders(DOMAIN queryParams(m)) :
         LET g == genRESTMethod(G, m, rangeOrder)
         IN /\ call' = [op |-> "genRESTMethod", m |-> m, rangeOrder |-> rangeOrder]
            /\ SetG(g)
            /\ result' = [err |-> g.err]
  /\ pc' = "done"

\* g.reset() and a fresh import set, as between the cases of the tests.
Reset ==
  /\ pc = "done"
  /\ pc' = "idle"
  /\ call' = [op |-> "none"]
  /\ result' = [err |-> NoErr]
  /\ pt' = <<>>
  /\ imports' = {}
  /\ lros' = {}
  /\ invoked' = <<>>
  /\ UNCHANGED <<descInfo, waitVars, iterVars, callVars>>

Next ==
  \/ GetLeafs
  \/ PathParams
  \/ QueryParams
  \/ GenerateQueryString
  \/ GenerateURLString
  \/ GenRESTMethod
  \/ Reset

Spec == Init /\ [][Next]_vars

----------------------------------------------------------------------------
(* The state machine of one call of Operation.Wait *)

\* Wait is called on a handle holding the operation the service returned.
WaitInit ==
  /\ pc = "idle"
  /\ call = [op |-> "none"]
  /\ result = [err |-> NoErr]
  /\ pt = <<>>
  /\ imports = {}
  /\ lros = {}
  /\ invoked = <<>>
  /\ descInfo = Type
  /\ wpc = "poll"
  /\ proto \in Operations
  /\ ctxDone = FALSE
  /\ responses = <<>>
  /\ events = <<>>
  /\ ret = Pending
  /\ IterIdle
  /\ CallIdle

\* if err := o.Poll(ctx, opts...); err != nil { return err }
WaitPoll ==
  /\ wpc = "poll"
  /\ Len(responses) < MaxPolls
  /\ \E got \in GetResults :
       LET polled == Poll([proto |-> proto], got)
       IN /\ responses' = Append(responses, got)
          /\ proto' = polled.h.proto
          /\ IF polled.err # NoErr
               THEN ret' = polled.err /\ wpc' = "returned"
               ELSE ret' = ret /\ wpc' = "done"
  /\ events' = Append(events, "poll")
  /\ UNCHANGED <<ctxDone, genVars, iterVars, callVars>>

\* if o.Done() { return nil }
WaitDone ==
  /\ wpc = "done"
  /\ IF Done(proto)
       THEN ret' = NoErr /\ wpc' = "returned"
       ELSE ret' = ret /\ wpc' = "sleep"
  /\ events' = Append(events, "done")
  /\ UNCHANGED <<proto, ctxDone, responses, genVars, iterVars, callVars>>

\* if err := gax.Sleep(ctx, bo.Pause()); err != nil { return err }
WaitSleep ==
  /\ wpc = "sleep"
  /\ IF Sleep(ctxDone) # NoErr
       THEN ret' = Sleep(ctxDone) /\ wpc' = "returned"
       ELSE ret' = ret /\ wpc' = "poll"
  /\ events' = Append(events, "sleep")
  /\ UNCHANGED <<proto, ctxDone, responses, genVars, iterVars, callVars>>

\* The caller cancels ctx, or its deadline passes.
Cancel ==
  /\ wpc # "returned"
  /\ ~ctxDone
  /\ ctxDone' = TRUE
  /\ UNCHANGED <<wpc, proto, responses, events, ret, genVars, iterVars, callVars>>

WaitNext ==
  \/ WaitPoll
  \/ WaitDone
  \/ WaitSleep
  \/ Cancel

WaitSpec == WaitInit /\ [][WaitNext]_vars

----------------------------------------------------------------------------
(* The state machine of one iterator *)

\* GetManyThings was called: the request is cloned, and the page size and
\* the token of the PageInfo are those of the request.
IterInit ==
  /\ pc = "idle"
  /\ call = [op |-> "none"]
  /\ result = [err |-> NoErr]
  /\ pt = <<>>
  /\ imports = {}
  /\ lros = {}
  /\ invoked = <<>>
  /\ descInfo = Type
  /\ wpc = "none"
  /\ proto = NilOperation
  /\ ctxDone = FALSE
  /\ responses = <<>>
  /\ events = <<>>
  /\ ret = Pending
  /\ pages \in Services
  /\ callerReq \in [PageSize : {0, 1, MaxInt32}, PageToken : {EmptyToken}]
  /\ req = callerReq
  /\ it = [items |-> <<>>, Response |-> NilResponse, MaxSize |-> callerReq.PageSize,
           Token |-> callerReq.PageToken, atEnd |-> FALSE, err |-> NoErr]
  /\ fetches = <<>>
  /\ yielded = <<>>
  /\ CallIdle

\* The caller sets it.PageInfo().MaxSize before the first Next.
SetMaxSize ==
  /\ yielded = <<>>
  /\ it.MaxSize = callerReq.PageSize
  /\ \E size \in PageSizes \ {callerReq.PageSize} : it' = [it EXCEPT !.MaxSize = size]
  /\ UNCHANGED <<req, callerReq, pages, fetches, yielded, genVars, waitVars, callVars>>

\* The caller calls it.Next().
IterNext ==
  /\ pages # <<>>
  /\ Len(yielded) < MaxNext
  /\ LET n == StringIteratorNext(IterState(it, req, fetches), pages)
     IN /\ it' = n.s.it
        /\ req' = n.s.req
        /\ fetches' = n.s.fetches
        /\ yielded' = Append(yielded, [item |-> n.item, err |-> n.err])
  /\ UNCHANGED <<callerReq, pages, genVars, waitVars, callVars>>

IterSpecNext ==
  \/ SetMaxSize
  \/ IterNext

IterSpec == IterInit /\ [][IterSpecNext]_vars

----------------------------------------------------------------------------
(* The state machine of the callers of one client *)

CallInit ==
  /\ pc = "idle"
  /\ call = [op |-> "none"]
  /\ result = [err |-> NoErr]
  /\ pt = <<>>
  /\ imports = {}
  /\ lros = {}
  /\ invoked = <<>>
  /\ descInfo = Type
  /\ wpc = "none"
  /\ proto = NilOperation
  /\ ctxDone = FALSE
  /\ responses = <<>>
  /\ events = <<>>
  /\ ret = Pending
  /\ IterIdle
  /\ client = NewRESTClient
  /\ callers = [i \in Callers |-> IdleCaller]

\* A caller calls a method, which runs up to gax.Invoke.
CallStart ==
  /\ \E i \in Callers, kind \in Kinds, outcome \in Outcomes :
       /\ callers[i].cpc = "idle"
       /\ LET s == start(client, callers[i], kind, outcome)
          IN /\ client' = s.c
             /\ callers' = [callers EXCEPT ![i] = s.caller]
  /\ UNCHANGED <<genVars, waitVars, iterVars>>

\* The call makes its round trip and returns.
CallFinish ==
  /\ \E i \in Callers, tolerate \in BOOLEAN :
       /\ callers[i].cpc = "built"
       /\ tolerate => callers[i].outcome = "unknown enum"
       /\ LET f == finish(client, callers[i], tolerate)
          IN /\ client' = f.c
             /\ callers' = [callers EXCEPT ![i] = f.caller]
  /\ UNCHANGED <<genVars, waitVars, iterVars>>

\* A caller cancels the context of its call.
CallCancel ==
  /\ \E i \in Callers :
       /\ callers[i].cpc = "built"
       /\ ~callers[i].ctxDone
       /\ callers' = [callers EXCEPT ![i].ctxDone = TRUE]
  /\ UNCHANGED <<client, genVars, waitVars, iterVars>>

\* Close: c.httpClient = nil.
Close ==
  /\ client.httpClient # "nil"
  /\ client' = [client EXCEPT !.httpClient = "nil"]
  /\ UNCHANGED <<callers, genVars, waitVars, iterVars>>

\* setGoogleClientInfo(keyval...): c.xGoogMetadata = metadata.Pairs(...).
setGoogleClientInfo ==
  /\ client.xGoogMetadata = NewRESTClient.xGoogMetadata
  /\ client' = [client EXCEPT !.xGoogMetadata = "x-goog-api-client: gl-go app gapic gax rest"]
  /\ UNCHANGED <<callers, genVars, waitVars, iterVars>>

CallNext ==
  \/ CallStart
  \/ CallFinish
  \/ CallCancel
  \/ Close
  \/ setGoogleClientInfo

CallSpec == CallInit /\ [][CallNext]_vars

----------------------------------------------------------------------------
(* Field chains of the schema, for stating what getLeafs must return *)

FieldsOf(msg) == {FieldRef(msg, i) : i \in 1..Len(descInfo[msg].field)}

IsMessageField(f) == Desc(f).type = fieldTypeMessage

\* The chains one field longer than a chain of cs ending in a message field.
Extend(cs) ==
  UNION {{Append(c, f) : f \in FieldsOf(Desc(c[Len(c)]).typeName)} :
           c \in {x \in cs : IsMessageField(x[Len(x)])}}

RECURSIVE ChainsFrom(_, _)
ChainsFrom(frontier, n) ==
  IF n = 0 \/ frontier = {} THEN {}
  ELSE frontier \cup ChainsFrom(Extend(frontier), n - 1)

\* The chains of fields from a root message: each field after the first is a
\* field of the message type of the one before it.  A chain that takes no
\* field twice is no longer than the number of fields of the schema.
Chains(root) == ChainsFrom({<<f>> : f \in FieldsOf(root)}, Cardinality(Fields))

\* The dot-joined field names along a chain.
ChainKey(c) == Join([k \in 1..Len(c) |-> Desc(c[k]).name], <<Dot>>)

NoFieldTwice(c) == \A i, j \in 1..Len(c) : i # j => c[i] # c[j]

IsRepeatedMessageField(f) == IsMessageField(f) /\ Desc(f).label = fieldLabelRepeated

\* A root with no repeated and no cyclic message field beneath it.
PlainRoot(root) ==
  \A c \in Chains(root) :
    NoFieldTwice(c) /\ \A k \in 1..Len(c) : ~IsRepeatedMessageField(c[k])

\* The chain a path of a root names.
ChainOf(root, path) == CHOOSE c \in Chains(root) : ChainKey(c) = path

AfterGetLeafs == pc = "done" /\ call.op = "getLeafs"

----------------------------------------------------------------------------
(* The dispatch *)

AfterGenRESTMethod == pc = "done" /\ call.op = "genRESTMethod"

\* The strategy the precedence order names for a method whose paging fields
\* are looked up without error.
FirstMatch(m) ==
  CASE m.lro -> "lroRESTCall"
    [] ~m.lro /\ m.outputType = emptyType -> "emptyUnaryRESTCall"
    [] ~m.lro /\ m.outputType # emptyType /\ m.paging = "fields" -> "pagingRESTCall"
    [] ~m.lro /\ m.outputType # emptyType /\ m.paging # "fields" /\ m.clientStreaming
         -> "noRequestStreamRESTCall"
    [] ~m.lro /\ m.outputType # emptyType /\ m.paging # "fields" /\ ~m.clientStreaming
         /\ m.serverStreaming -> "serverStreamRESTCall"
    [] OTHER -> "unaryRESTCall"

\* The lookup of the paging fields, or of the iterator type, is reached and fails.
PagingLookupFails(m) ==
  /\ ~m.lro
  /\ m.outputType # emptyType
  /\ m.paging = "err" \/ (m.paging = "fields" /\ m.iterErr)

\* C1, as amended: genRESTMethod invokes exactly one synthesizer, the first
\* match of the order long-running operation, empty output, paging fields,
\* client streaming, server streaming, unary; except that a method that is
\* neither long-running nor of empty output and whose paging fields or
\* iterator type cannot be determined gets that error and no synthesizer.
C1_FirstMatchUnlessPagingError ==
  AfterGenRESTMethod =>
    IF PagingLookupFails(call.m)
    THEN invoked = <<>> /\ result.err \in {ErrPagingFields, ErrIterType}
    ELSE invoked = <<FirstMatch(call.m)>>

\* C1 witness: a long-running method with the empty output type got
\* lroRESTCall alone.
C1_Witness ==
  /\ AfterGenRESTMethod
  /\ call.m.lro
  /\ call.m.outputType = emptyType
  /\ invoked = <<"lroRESTCall">>

\* C1 as stated: every method gets exactly one synthesizer, the first match.
C1_AlwaysExactlyOne ==
  AfterGenRESTMethod => invoked = <<FirstMatch(call.m)>>

----------------------------------------------------------------------------
(* getLeafs *)

\* C2: for a root with no repeated or cyclic message field and no exclusion,
\* getLeafs returns one entry per chain of message fields that ends in a
\* non-message field, keyed by the dot-joined names and valued by the
\* terminal field, and nothing else.
C2_OneEntryPerLeafChain ==
  (AfterGetLeafs /\ call.excludedFields = <<>> /\ PlainRoot(call.msg)) =>
    LET leafChains == {c \in Chains(call.msg) : ~IsMessageField(c[Len(c)])}
    IN /\ DOMAIN result.leafs = {ChainKey(c) : c \in leafChains}
       /\ \A c \in leafChains : result.leafs[ChainKey(c)] = c[Len(c)]
       /\ Cardinality(DOMAIN result.leafs) = Cardinality(leafChains)

\* C2 witness: a leaf three fields deep was returned for such a root.
C2_Witness ==
  /\ AfterGetLeafs
  /\ call.excludedFields = <<>>
  /\ PlainRoot(call.msg)
  /\ \E path \in DOMAIN result.leafs : Len(Split(path, Dot)) = 3

\* C3: getLeafs returns on every root, cyclic ones included; no path of the
\* result takes a message field twice; and the self-referential Whelk yields
\* exactly mass_kg and whelk.mass_kg.
C3_CycleEnteredOnce ==
  AfterGetLeafs =>
    /\ \A path \in DOMAIN result.leafs :
         \E c \in Chains(call.msg) : ChainKey(c) = path /\ NoFieldTwice(c)
    /\ (call.msg = Pkg \o "Whelk" /\ call.excludedFields = <<>>) =>
         result.leafs = (Bytes("mass_kg") :> FieldRef(Pkg \o "Whelk", 1))
                        @@ (Bytes("whelk.mass_kg") :> FieldRef(Pkg \o "Whelk", 1))

\* C3 witness: getLeafs returned whelk.mass_kg for Whelk.
C3_Witness ==
  /\ AfterGetLeafs
  /\ call.msg = Pkg \o "Whelk"
  /\ Bytes("whelk.mass_kg") \in DOMAIN result.leafs

\* C4: no path of the result passes through or ends at a repeated message
\* field, and every non-message field of the root is returned.
C4_RepeatedMessageSkipped ==
  AfterGetLeafs =>
    /\ \A path \in DOMAIN result.leafs :
         \E c \in Chains(call.msg) :
           ChainKey(c) = path /\ \A k \in 1..Len(c) : ~IsRepeatedMessageField(c[k])
    /\ \A f \in FieldsOf(call.msg) :
         ~IsMessageField(f) =>
           Desc(f).name \in DOMAIN result.leafs /\ result.leafs[Desc(f).name] = f

\* C4 witness: for Trawl, with its repeated clams, exactly mass_kg was returned.
C4_Witness ==
  /\ AfterGetLeafs
  /\ call.msg = Pkg \o "Trawl"
  /\ DOMAIN result.leafs = {Bytes("mass_kg")}

\* C5: with one singular message field excluded, the result is the result
\* without exclusion less the paths through that field, with the same leaves.
C5_ExcludedSubtreeOnly ==
  (/\ AfterGetLeafs
   /\ Len(call.excludedFields) = 1
   /\ call.excludedFields[1] \in Fields
   /\ IsMessageField(call.excludedFields[1])
   /\ ~IsRepeatedMessageField(call.excludedFields[1])) =>
    LET excluded == call.excludedFields[1]
        all == getLeafs(call.msg, <<>>)
        through(path) == LET c == ChainOf(call.msg, path)
                         IN \E k \in 1..Len(c) : c[k] = excluded
        outside == {path \in DOMAIN all : ~through(path)}
    IN /\ DOMAIN result.leafs = outside
       /\ \A path \in outside : result.leafs[path] = all[path]
       /\ \A path \in DOMAIN result.leafs : ~through(path)

\* C5 witness: Squid with its mantle excluded yields length_m alone.
C5_Witness ==
  /\ AfterGetLeafs
  /\ call.msg = Pkg \o "Squid"
  /\ call.excludedFields = <<FieldRef(Pkg \o "Squid", 2)>>
  /\ DOMAIN result.leafs = {Bytes("length_m")}

----------------------------------------------------------------------------
(* pathParams, queryParams *)

\* The {placeholder} tokens of a URL template: the non-empty texts between
\* an opening brace and the next closing brace.
Placeholders(url) ==
  {SubSeq(url, p[1] + 1, p[2] - 1) :
     p \in {q \in (1..Len(url)) \X (1..Len(url)) :
              /\ url[q[1]] = LBrace
              /\ url[q[2]] = RBrace
              /\ q[2] > q[1] + 1
              /\ \A k \in (q[1] + 1)..(q[2] - 1) : url[k] \notin {LBrace, RBrace}}}

\* a is a proper prefix of b.
HasPrefix(b, a) == Len(a) < Len(b) /\ SubSeq(b, 1, Len(a)) = a

\* a < b in the lexicographic order of the bytes.
LexLess(a, b) ==
  \E k \in 1..Len(b) :
    /\ \A j \in 1..(k - 1) : j <= Len(a) /\ a[j] = b[j]
    /\ k > Len(a) \/ a[k] < b[k]

\* The path names the body selector or lies beneath it.
InBody(path, body) == path = body \/ HasPrefix(path, body \o <<Dot>>)

\* C6: the keys of pathParams(m) are the placeholders of the URL template
\* that resolve to a field of the input message, each mapped to that field;
\* the others are left out, and the map is empty without HTTP info or
\* without placeholders.
C6_ResolvingPlaceholders ==
  (pc = "done" /\ call.op = "pathParams") =>
    LET info == getHTTPInfo(call.m)
        resolving == IF info.nil THEN {}
                     ELSE {t \in Placeholders(info.url) :
                             lookupField(call.m.inputType, t) # NilField}
    IN /\ DOMAIN result.params = resolving
       /\ \A t \in resolving : result.params[t] = lookupField(call.m.inputType, t)

\* C6 witness: of the placeholders kingdom, phylum and class, the two that
\* IdentifyRequest has were returned and class was left out.
C6_Witness ==
  /\ pc = "done"
  /\ call.op = "pathParams"
  /\ call.m.inputType = ".identify.IdentifyRequest"
  /\ Bytes("class") \in Placeholders(getHTTPInfo(call.m).url)
  /\ DOMAIN result.params = {Bytes("kingdom"), Bytes("phylum")}

\* C7: generating a method whose URL template has a placeholder that names
\* no leaf field of the input message ends in an error.
C7_UnresolvedPlaceholderFails ==
  (/\ AfterGenRESTMethod
   /\ ~getHTTPInfo(call.m).nil
   /\ \E t \in Placeholders(getHTTPInfo(call.m).url) :
        \A c \in Chains(call.m.inputType) :
          ChainKey(c) = t => IsMessageField(c[Len(c)])) =>
    result.err # NoErr

\* C8: queryParams(m) is empty without HTTP info or with the body "*", and
\* otherwise holds the leaf paths of the input message that are no path
\* parameter, not the body selector and not beneath it, with their leaves.
C8_RemainingLeafPaths ==
  (pc = "done" /\ call.op = "queryParams") =>
    LET info == getHTTPInfo(call.m)
        leafs == getLeafs(call.m.inputType, <<>>)
        remaining == {path \in DOMAIN leafs :
                        /\ path \notin DOMAIN pathParams(call.m)
                        /\ ~InBody(path, info.body)}
    IN IF info.nil \/ info.body = <<Star>> THEN DOMAIN result.params = {}
       ELSE /\ DOMAIN result.params = remaining
            /\ \A path \in remaining : result.params[path] = leafs[path]

\* C9: for a method with an HTTP annotation, the path-parameter paths, the
\* body-subtree paths and the query-parameter paths are pairwise disjoint
\* and every leaf path of the input message is among them.
C9_PartitionOfLeafs ==
  (pc = "done" /\ call.op = "queryParams" /\ call.m.options.http) =>
    LET info == getHTTPInfo(call.m)
        leafs == DOMAIN getLeafs(call.m.inputType, <<>>)
        path == DOMAIN pathParams(call.m)
        body == IF info.body = <<Star>> THEN leafs
                ELSE {p \in leafs : InBody(p, info.body)}
        query == DOMAIN result.params
    IN /\ path \cap body = {}
       /\ path \cap query = {}
       /\ body \cap query = {}
       /\ leafs \subseteq path \cup body \cup query

\* The paths of the parameter additions among emitted lines, in order.
IsParamAdd(line) == line.kind = "paramAdd"

\* C10: generateQueryString emits one addition per query parameter, in
\* ascending lexicographic order of the paths, whatever order the range
\* over the map took.
C10_SortedParamAdds ==
  (pc = "done" /\ call.op = "generateQueryString") =>
    LET adds == SelectSeq(pt, IsParamAdd)
    IN /\ \A i \in 1..(Len(adds) - 1) : LexLess(adds[i].path, adds[i + 1].path)
       /\ {adds[i].path : i \in 1..Len(adds)} = DOMAIN queryParams(call.m)

\* C10 witness: the range yielded the paths out of order and two or more
\* additions were emitted.
C10_Witness ==
  /\ pc = "done"
  /\ call.op = "generateQueryString"
  /\ \E i \in 1..(Len(call.rangeOrder) - 1) :
       LexLess(call.rangeOrder[i + 1], call.rangeOrder[i])
  /\ Len(SelectSeq(pt, IsParamAdd)) >= 2

----------------------------------------------------------------------------
(* The guards of generateQueryString *)

AfterGenerateQueryString == pc = "done" /\ call.op = "generateQueryString"

\* The descriptor of the query parameter an emitted line is about.
LineField(line) == Desc(queryParams(call.m)[line.path])

\* The addition at line i is not inside a guard.
Unguarded(i) == pt[i - 1].kind # "if"

\* The values a request may hold in a field, by the kind of the field.
FieldValues(d) ==
  IF d.label = fieldLabelRepeated THEN {"nil", "empty", "nonEmpty"}
  ELSE IF d.proto3Optional THEN {"parentNil", "unset", "setZero", "setNonZero"}
  ELSE IF d.type \in {fieldTypeMessage, fieldTypeBytes} THEN {"nil", "empty", "nonEmpty"}
  ELSE IF d.type = fieldTypeString THEN {"emptyString", "nonEmptyString"}
  ELSE IF d.type = fieldTypeBool THEN {"false", "true"}
  ELSE {"zero", "nonZero"}

\* Whether the condition of an emitted guard holds of a value.
GuardHolds(guard, v) ==
  CASE guard.cond = "!= nil" -> v # "nil"
    [] guard.cond = "parent != nil && direct != nil" -> v \notin {"parentNil", "unset"}
    [] guard.cond = "!= \"\"" -> v # "emptyString"
    [] guard.cond = "true" -> v = "true"
    [] guard.cond = "!= 0" -> v # "zero"

\* C11: an addition is emitted outside any guard exactly for the query
\* fields that are required, singular and neither message nor bytes, also
\* when the field has optional presence.
C11_UnguardedIffRequiredScalar ==
  AfterGenerateQueryString =>
    \A i \in DOMAIN pt :
      pt[i].kind = "paramAdd" =>
        LET d == LineField(pt[i])
        IN Unguarded(i) <=>
             (d.required /\ d.label # fieldLabelRepeated
                /\ d.type \notin {fieldTypeMessage, fieldTypeBytes})

\* C11 witness: a required field with optional presence was added outside
\* any guard and a required bytes field inside one.
C11_Witness ==
  /\ AfterGenerateQueryString
  /\ \E i \in DOMAIN pt :
       /\ pt[i].kind = "paramAdd"
       /\ Unguarded(i)
       /\ LineField(pt[i]).required /\ LineField(pt[i]).proto3Optional
  /\ \E i \in DOMAIN pt :
       /\ pt[i].kind = "paramAdd"
       /\ ~Unguarded(i)
       /\ LineField(pt[i]).required /\ LineField(pt[i]).type = fieldTypeBytes

\* The values of a field the inclusion policy includes in the query string.
PolicyIncludes(d, v) ==
  IF d.label = fieldLabelRepeated THEN v = "nonEmpty"
  ELSE IF d.proto3Optional THEN v \in {"setZero", "setNonZero"}
  ELSE IF d.type \in {fieldTypeMessage, fieldTypeBytes} THEN v # "nil"
  ELSE IF d.type = fieldTypeString THEN v = "nonEmptyString"
  ELSE IF d.type = fieldTypeBool THEN v = "true"
  ELSE v = "nonZero"

\* C12: a query field that is not added regardless is added inside exactly
\* one guard, which lets through the values of the first matching rule:
\* repeated, a non-empty collection; optional presence, a present value;
\* string, non-empty; boolean, true; message or bytes, non-nil; any other
\* type, non-zero.
C12_OneGuardByFirstMatch ==
  AfterGenerateQueryString =>
    \A i \in DOMAIN pt :
      (pt[i].kind = "paramAdd" /\ ~Unguarded(i)) =>
        /\ pt[i - 2].kind # "if"
        /\ pt[i + 1] = Text("}")
        /\ \A v \in FieldValues(LineField(pt[i])) :
             GuardHolds(pt[i - 1], v) <=> PolicyIncludes(LineField(pt[i]), v)

----------------------------------------------------------------------------
(* The URL path *)

AfterGenerateURLString == pc = "done" /\ call.op = "generateURLString"

\* The end of the longest run of letters, digits, "_" and "." after the
\* i-th byte of a template (i itself when there is none).
PathEnd(url, i) ==
  CHOOSE e \in i..Len(url) :
    /\ \A k \in (i + 1)..e : IsIdentChar(url[k])
    /\ e = Len(url) \/ ~IsIdentChar(url[e + 1])

\* The first brace after the e-th byte of a template, 0 when there is none.
NextBrace(url, e) ==
  IF \E j \in (e + 1)..Len(url) : url[j] \in {LBrace, RBrace}
    THEN CHOOSE j \in (e + 1)..Len(url) :
           /\ url[j] \in {LBrace, RBrace}
           /\ \A k \in (e + 1)..(j - 1) : url[k] \notin {LBrace, RBrace}
    ELSE 0

\* A placeholder opens at the i-th byte: "{", a field path, then "}" or "="
\* and a pattern without braces, and "}".
IsVariableAt(url, i) ==
  /\ url[i] = LBrace
  /\ PathEnd(url, i) > i
  /\ NextBrace(url, PathEnd(url, i)) # 0
  /\ url[NextBrace(url, PathEnd(url, i))] = RBrace
  /\ \/ NextBrace(url, PathEnd(url, i)) = PathEnd(url, i) + 1
     \/ /\ url[PathEnd(url, i) + 1] = Equals
        /\ NextBrace(url, PathEnd(url, i)) > PathEnd(url, i) + 2

\* The field paths of the placeholders, in the order of the template.
RECURSIVE VariablePathsFrom(_, _)
VariablePathsFrom(url, i) ==
  IF i > Len(url) THEN <<>>
  ELSE IF IsVariableAt(url, i)
    THEN <<SubSeq(url, i + 1, PathEnd(url, i))>>
         \o VariablePathsFrom(url, NextBrace(url, PathEnd(url, i)) + 1)
  ELSE VariablePathsFrom(url, i + 1)

\* The value a request holds in a field, formatted.
FieldValue(path) ==
  CASE path = Bytes("kingdom") -> Bytes("Animalia")
    [] path = Bytes("phylum") -> Bytes("Mollusca")
    [] OTHER -> <<36>> \o path

\* The template with every placeholder replaced by the value of its field.
RECURSIVE Substituted(_, _)
Substituted(url, i) ==
  IF i > Len(url) THEN <<>>
  ELSE IF IsVariableAt(url, i)
    THEN FieldValue(SubSeq(url, i + 1, PathEnd(url, i)))
         \o Substituted(url, NextBrace(url, PathEnd(url, i)) + 1)
  ELSE <<url[i]>> \o Substituted(url, i + 1)

\* The number of %v in a format.
Slots(format) ==
  Cardinality({i \in 1..(Len(format) - 1) : format[i] = 37 /\ format[i + 1] = 118})

\* C13: the emitted path expression has one accessor per placeholder, in
\* template order, and as many %v; formatted with the values of the fields
\* it is the template with each placeholder replaced by its field's value
\* and all other text kept: /v1/{kingdom}/phylum/{phylum} gives
\* /v1/Animalia/phylum/Mollusca.
C13_PlaceholdersSubstitutedInOrder ==
  (AfterGenerateURLString /\ ~getHTTPInfo(call.m).nil) =>
    LET url == getHTTPInfo(call.m).url
        line == pt[2]
        values == [k \in 1..Len(line.tokens) |-> FieldValue(line.tokens[k])]
    IN /\ line.kind = "urlPath"
       /\ line.tokens = VariablePathsFrom(url, 1)
       /\ Slots(line.fmtStr) = Len(line.tokens)
       /\ Sprintf(line.fmtStr, values) = Substituted(url, 1)
       /\ url = Bytes("/v1/{kingdom}/phylum/{phylum}") =>
            Sprintf(line.fmtStr, values) = Bytes("/v1/Animalia/phylum/Mollusca")

\* C13 witness: the path expression for /v1/{kingdom}/phylum/{phylum} was
\* emitted with the accessors of kingdom and phylum.
C13_Witness ==
  /\ AfterGenerateURLString
  /\ getHTTPInfo(call.m).url = Bytes("/v1/{kingdom}/phylum/{phylum}")
  /\ pt[2].tokens = <<Bytes("kingdom"), Bytes("phylum")>>

----------------------------------------------------------------------------
(* Rejected methods, stubs and long-running operations *)

Transcoding == {"unaryRESTCall", "emptyUnaryRESTCall", "pagingRESTCall"}

Streaming == {"noRequestStreamRESTCall", "serverStreamRESTCall"}

\* The emitted lines that are part of a transport round trip.
RoundTripLines ==
  {i \in 1..Len(pt) :
     \/ pt[i].kind = "http.NewRequest"
     \/ pt[i] = Text("httpRsp, err := c.httpClient.Do(httpReq)")}

\* C14: a method with verb GET or DELETE and a non-empty body selector is
\* rejected with the error naming the misuse of the body, whether it is
\* dispatched to the plain unary, the empty-response or the paginated
\* strategy.
C14_BodyOnGetDeleteRejected ==
  (/\ AfterGenRESTMethod
   /\ Len(invoked) = 1 /\ invoked[1] \in Transcoding
   /\ ~getHTTPInfo(call.m).nil
   /\ getHTTPInfo(call.m).verb \in {"get", "delete"}
   /\ getHTTPInfo(call.m).body # <<>>)
  => result.err = ErrBodyOnGetDelete

\* C15: for a method without HTTP annotation getHTTPInfo is nil, and the
\* plain unary, empty-response and paginated strategies fail with 'method
\* has no http info' and emit no request.
C15_NoAnnotationNoHTTPInfo ==
  (/\ AfterGenRESTMethod
   /\ Len(invoked) = 1 /\ invoked[1] \in Transcoding
   /\ ~call.m.options.http)
  => /\ getHTTPInfo(call.m).nil
     /\ result.err = ErrNoHTTPInfo
     /\ RoundTripLines = {}

C17_LROIssuesTransportCall ==
  (AfterGenRESTMethod /\ call.m.lro) =>
    /\ result.err = NoErr
    /\ RoundTripLines # {}
    /\ \A i \in 1..Len(pt) : pt[i] # NotSupported(call.m)

----------------------------------------------------------------------------
(* Operation.Wait *)

\* The polls so far succeeded and reported not-done k times and then done.
NotDoneThenDone(k) ==
  /\ Len(responses) = k + 1
  /\ \A i \in 1..(k + 1) : responses[i].err = NoErr
  /\ \A i \in 1..k : ~responses[i].resp.status
  /\ responses[k + 1].resp.status

\* k times poll, completion check and sleep.
RECURSIVE Rounds(_)
Rounds(k) == IF k = 0 THEN <<>> ELSE <<"poll", "done", "sleep">> \o Rounds(k - 1)

Count(ev) == Cardinality({i \in 1..Len(events) : events[i] = ev})

\* C18: when the polls succeeded and reported not-done k times and then
\* done, and the completion after the last poll has been checked, Wait has
\* returned nil after k rounds of poll, check and sleep and one more poll
\* and check: k + 1 polls and k sleeps. Wait returns nil in no other case.
C18_PollsUntilDone ==
  /\ \A k \in 0..(MaxPolls - 1) :
       (NotDoneThenDone(k) /\ wpc # "done") =>
         /\ wpc = "returned"
         /\ ret = NoErr
         /\ events = Rounds(k) \o <<"poll", "done">>
         /\ Count("poll") = k + 1
         /\ Count("sleep") = k
  /\ ret = NoErr => \E k \in 0..(MaxPolls - 1) : NotDoneThenDone(k)

\* C18 witness: not done twice, then done: three polls and two sleeps.
C18_Witness ==
  /\ NotDoneThenDone(2)
  /\ wpc = "returned"
  /\ Count("poll") = 3
  /\ Count("sleep") = 2

\* C19: a step of Wait in which a poll fails returns the error of that
\* poll and leaves the cached operation as it was, and once Wait has
\* returned there is no poll, no sleep and no change of the cached operation.
C19_PollFailureAborts ==
  [][/\ (wpc = "poll" /\ Len(responses') = Len(responses) + 1
           /\ responses'[Len(responses')].err # NoErr)
        => /\ wpc' = "returned"
           /\ ret' = responses'[Len(responses')].err
           /\ proto' = proto
     /\ wpc = "returned" => UNCHANGED <<events, responses, proto, ret>>]_vars

\* C19 witness: the second poll failed; Wait returned its error after the
\* events poll, check, sleep, poll, with the operation of the first poll cached.
C19_Witness ==
  /\ Len(responses) = 2
  /\ responses[2].err = ErrGet
  /\ ret = ErrGet
  /\ wpc = "returned"
  /\ events = <<"poll", "done", "sleep", "poll">>
  /\ proto = responses[1].resp

\* C20: when Wait has returned after a poll that found the operation
\* complete with a recorded failure, it returned that failure.
C20_FailedOperationReturnsFailure ==
  (/\ wpc = "returned"
   /\ responses # <<>>
   /\ responses[Len(responses)].err = NoErr
   /\ responses[Len(responses)].resp.status
   /\ responses[Len(responses)].resp.error # "")
  => ret = responses[Len(responses)].resp.error

----------------------------------------------------------------------------
(* Names, bodies and the frame of a rejected method *)

\* A field directly on the request message has the simple name of the leaf
\* and is not the leaf.
NameTakenAtRoot(m, leaf) ==
  \E f \in FieldsOf(m.inputType) : Desc(f).name = Desc(leaf).name /\ f # leaf

\* C26: among the leaves that are neither path parameter nor body, the
\* ones left out of the query parameters are exactly those whose simple name
\* belongs to another field directly on the request message.
C26_RejectedIffNameTakenAtRoot ==
  (/\ pc = "done" /\ call.op = "queryParams"
   /\ ~getHTTPInfo(call.m).nil
   /\ getHTTPInfo(call.m).body # <<Star>>) =>
    LET info == getHTTPInfo(call.m)
        bodyField == lookupField(call.m.inputType, info.body)
        pathToLeaf == getLeafs(call.m.inputType, <<bodyField>>)
        candidates == {path \in DOMAIN pathToLeaf :
                         /\ path \notin DOMAIN pathParams(call.m)
                         /\ path # info.body}
    IN \A path \in candidates :
         path \notin DOMAIN result.params <=> NameTakenAtRoot(call.m, pathToLeaf[path])

\* The emitted lines marshaling the request body.
MarshalLines == {i \in 1..Len(pt) : pt[i].kind = "jsonReq, err := m.Marshal"}

\* The emitted lines selecting a field of the request as body.
BodySelectLines == {i \in 1..Len(pt) : pt[i].kind = "body := req"}

\* C27: a generated plain unary, empty-response or paginated method
\* marshals nothing when the body selector is empty, the whole request when
\* it is "*", and otherwise the field the selector names, taken from the
\* request just before.
C27_MarshaledBodyIsSelected ==
  (/\ AfterGenRESTMethod
   /\ Len(invoked) = 1 /\ invoked[1] \in Transcoding
   /\ result.err = NoErr) =>
    LET body == getHTTPInfo(call.m).body
    IN IF body = <<>> THEN MarshalLines = {} /\ BodySelectLines = {}
       ELSE /\ Cardinality(MarshalLines) = 1
            /\ \A i \in MarshalLines :
                 IF body = <<Star>>
                   THEN pt[i].object = "req" /\ BodySelectLines = {}
                   ELSE /\ pt[i].object = "body"
                        /\ BodySelectLines = {i - 1}
                        /\ pt[i - 1].path = body

\* The field paths whose accessors the emitted URL path expression takes.
URLFieldPaths ==
  UNION {{pt[i].tokens[k] : k \in 1..Len(pt[i].tokens)} :
           i \in {j \in 1..Len(pt) : pt[j].kind = "urlPath"}}

\* The field paths the emitted query string adds.
QueryFieldPaths == {pt[i].path : i \in {j \in 1..Len(pt) : pt[j].kind = "paramAdd"}}

\* C29: no field path substituted into the URL path of a generated method
\* is also added to its query string, and the fields of the request among
\* the substituted ones are the path parameters.
C29_PathFieldsNotInQuery ==
  (/\ AfterGenRESTMethod
   /\ Len(invoked) = 1 /\ invoked[1] \in Transcoding
   /\ result.err = NoErr) =>
    /\ URLFieldPaths \cap QueryFieldPaths = {}
    /\ {t \in URLFieldPaths : lookupField(call.m.inputType, t) # NilField}
         = DOMAIN pathParams(call.m)

\* C30: when genRESTMethod returns the error of the missing HTTP info or of
\* the body on a GET or DELETE method, nothing was written to the output
\* buffer and nothing was added to the imports.
C30_RejectedMethodEmitsNothing ==
  (AfterGenRESTMethod /\ result.err \in {ErrNoHTTPInfo, ErrBodyOnGetDelete}) =>
    pt = <<>> /\ imports = {}

----------------------------------------------------------------------------
(* The page iterator *)

\* The items of the first n pages, in order.
RECURSIVE ItemsOfPages(_, _)
ItemsOfPages(service, n) ==
  IF n = 0 THEN <<>> ELSE ItemsOfPages(service, n - 1) \o service[n].items

\* No page of the service is an error.
AllPagesServed == \A i \in 1..Len(pages) : ~pages[i].err

\* The number of calls of Next that returned an item.
ItemsYielded == Cardinality({i \in 1..Len(yielded) : yielded[i].err = NoErr})

\* C22: on a service that returns every page, the calls of Next return the
\* items of the pages in order and then Done, every call after Done
\* returns Done, a page is fetched only when the items of the pages before
\* it have all been returned, and at Done each page has been fetched once;
\* pages [a, b] and [c] give a, b, c, Done, Done with two fetches.
C22_IteratorRefetchesUntilEmptyToken ==
  (pages # <<>> /\ AllPagesServed) =>
    LET all == ItemsOfPages(pages, Len(pages))
    IN /\ \A i \in 1..Len(yielded) :
            IF i <= Len(all)
              THEN yielded[i] = [item |-> all[i], err |-> NoErr]
              ELSE yielded[i] = [item |-> "", err |-> IteratorDone]
       /\ \A i \in 1..Len(fetches) : fetches[i].sent.PageToken = i - 1
       /\ IF Len(yielded) > Len(all) THEN Len(fetches) = Len(pages)
          ELSE /\ Len(ItemsOfPages(pages, Len(fetches))) >= Len(yielded)
               /\ Len(fetches) > 0 =>
                    (Len(yielded) > 0 /\
                     Len(ItemsOfPages(pages, Len(fetches) - 1)) < Len(yielded))
       /\ (pages = <<Page(<<"a", "b">>), Page(<<"c">>)>> /\ Len(yielded) = 5) =>
            /\ yielded = <<[item |-> "a", err |-> NoErr], [item |-> "b", err |-> NoErr],
                           [item |-> "c", err |-> NoErr],
                           [item |-> "", err |-> IteratorDone],
                           [item |-> "", err |-> IteratorDone]>>
            /\ Len(fetches) = 2

\* C22 witness: the pages [a, b] and [c] were iterated to Done and past it.
C22_Witness ==
  /\ pages = <<Page(<<"a", "b">>), Page(<<"c">>)>>
  /\ Len(yielded) = 5
  /\ yielded[4].err = IteratorDone
  /\ yielded[5].err = IteratorDone
  /\ Len(fetches) = 2

\* C23: every fetch left the page size of the request as it was for a page
\* size of zero, set it to the 32-bit maximum for a page size above it, and
\* to the page size passed otherwise, never above the maximum; and the
\* request of the caller is never changed.
C23_PageSizeClampedOrCopied ==
  /\ [](\A i \in 1..Len(fetches) :
          LET f == fetches[i]
          IN /\ f.pageSize = 0 => f.sent.PageSize = f.before.PageSize
             /\ f.pageSize > MaxInt32 => f.sent.PageSize = MaxInt32
             /\ (f.pageSize # 0 /\ f.pageSize <= MaxInt32) => f.sent.PageSize = f.pageSize
             /\ f.sent.PageSize <= MaxInt32)
  /\ [][callerReq' = callerReq]_vars

----------------------------------------------------------------------------
(* The raw body of google.api.HttpBody *)

\* The emitted lines closing the function passed to gax.Invoke.
InvokeEnds == {i \in 1..Len(pt) : pt[i] = Text("}, opts...)")}

\* C28: a generated plain unary method whose output is google.api.HttpBody
\* copies the bytes read into Data and the first Content-Type header into
\* ContentType, decodes nothing, and the function it passes to gax.Invoke
\* ends by returning nil, so that the method returns the result and a nil
\* error.
C28_HttpBodyCopiedAndReturned ==
  (/\ AfterGenRESTMethod
   /\ invoked = <<"unaryRESTCall">>
   /\ result.err = NoErr
   /\ call.m.outputType = ".google.api.HttpBody") =>
    /\ \E i \in 1..Len(pt) :
         /\ pt[i] = Text("resp.Data = buf")
         /\ pt[i + 2] = Text("resp.ContentType = headers[Content-Type][0]")
    /\ \A i \in 1..Len(pt) : pt[i] # Text("if err := unm.Unmarshal(buf, resp); err != nil {")
    /\ InvokeEnds # {}
    /\ \A i \in InvokeEnds : pt[i - 1] = Text("return nil")

----------------------------------------------------------------------------
(* The calls of one client *)

\* The round trip of a returned call failed: in the transport, the status
\* check, the reading of the body or its decoding.
Failed(caller) ==
  \/ caller.outcome \in {"transport fails", "bad status"}
  \/ /\ caller.kind # "EmptyRPC"
     /\ \/ caller.outcome \in {"read fails", "decoding fails"}
        \/ caller.outcome = "unknown enum" /\ ~caller.tolerate

\* C21: a plain unary, empty-response or paginated-fetch call whose
\* context was cancelled before its round trip returns an error.
C21_CancelledRoundTripAborts ==
  \A i \in Callers :
    (/\ callers[i].cpc = "returned"
     /\ callers[i].kind \in {"Unary", "EmptyRPC", "Fetch"}
     /\ callers[i].ctxDone) =>
      callers[i].ret.err # NoErr

\* C24: no returned call has both a result and an error; a plain unary or
\* custom-operation call whose round trip failed returned a nil result and
\* the error, and a fetch whose round trip failed returned nil items, the
\* empty token and the error, with the buffer and the Response of the
\* iterator as before.
C24_NeverResultAndError ==
  \A i \in Callers :
    LET caller == callers[i]
    IN caller.cpc = "returned" =>
         /\ ~(caller.ret.resp \notin {"nil", "none"} /\ caller.ret.err # NoErr)
         /\ (Failed(caller) /\ caller.kind \in {"Unary", "CustomOp"}) =>
              (caller.ret.resp = "nil" /\ caller.ret.err # NoErr)
         /\ (Failed(caller) /\ caller.kind = "Fetch") =>
              /\ caller.ret.resp = "nil"
              /\ caller.ret.nextPageToken = EmptyToken
              /\ caller.ret.err # NoErr
              /\ caller.it = IdleCaller.it

\* C24 witness: a fetch returned after its decoding failed and a plain
\* unary call after a bad status.
C24_Witness ==
  \E i, j \in Callers :
    /\ callers[i].cpc = "returned" /\ callers[i].kind = "Fetch"
    /\ callers[i].outcome = "decoding fails"
    /\ callers[j].cpc = "returned" /\ callers[j].kind = "Unary"
    /\ callers[j].outcome = "bad status"

\* The call of a caller run on a client no one else uses.
Alone(caller) ==
  LET begun == start(NewRESTClient, IdleCaller, caller.kind, caller.outcome).caller
  IN finish(NewRESTClient, [begun EXCEPT !.ctxDone = caller.ctxDone],
            caller.tolerate).caller

\* The client after Close.
Closed(c) == [c EXCEPT !.httpClient = "nil"]

====
